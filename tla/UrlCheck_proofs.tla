--------------------------- MODULE UrlCheck_proofs --------------------------
(***************************************************************************)
(* Proofs of the safety properties of UrlCheck, for any number of URLs and *)
(* handlers and any bounds.                                                *)
(***************************************************************************)
EXTENDS UrlCheck, TLAPS

\* A handler that is not idle holds a whole record.
Held == [at : {"asking", "answered", "recorded"}, id : Nat, url : Urls, result : Nat]

\* The entry that handler c writes, or has written.
EntryOf(c) == [id |-> check[c].id, url |-> check[c].url, result |-> check[c].result]

(***************************************************************************)
(* The inductive invariant.                                                *)
(***************************************************************************)
\* An id belongs to one URL for ever: the rows, the entries and the checks that have
\* it agree, and none has an id that is still to be given out.
IdInv ==
    /\ \A q, r \in rows : q.id = r.id => q = r
    /\ \A h \in history : h.id <= lastId
    /\ \A c \in Checkers : check[c] # Idle => check[c].id <= lastId
    /\ HistoryIsOfItsUrl
    /\ \A r \in rows : \A c \in Checkers : check[c] # Idle /\ check[c].id = r.id => check[c].url = r.url

\* What is shown, or about to be, is in the history.
ShownInv ==
    /\ \A r \in rows : r.shown # 0 => \E h \in history : h.id = r.id /\ h.result = r.shown
    /\ \A c \in Checkers : check[c].at = "recorded" => EntryOf(c) \in history

\* While the checks of a row's URL have not overlapped there is one at most, and from
\* the end of its request on its result is the newest; what the list does not show yet
\* is the result that is just being written.
Newest(r) ==
    /\ \A c, d \in Checkers :
          /\ check[c] # Idle /\ check[c].id = r.id
          /\ check[d] # Idle /\ check[d].id = r.id
          => c = d
    /\ \A c \in Checkers :
          check[c].at \in {"answered", "recorded"} /\ check[c].id = r.id =>
             \A h \in history : h.id = r.id => h.result <= check[c].result
    /\ faults = 0 =>
          \/ \E c \in Checkers : check[c].at = "recorded" /\ check[c].id = r.id
          \/ \A h \in history : h.id = r.id => h.result <= r.shown

NewestInv ==
    /\ \A h \in history : h.result <= answers
    /\ \A c \in Checkers : check[c].at \in {"answered", "recorded"} => check[c].result <= answers
    /\ \A r \in rows : r.id \notin overlapped => Newest(r)

-----------------------------------------------------------------------------
(***************************************************************************)
(* Types                                                                   *)
(***************************************************************************)
LEMMA FaultCounts ==
    ASSUME faults \in 0 .. MaxFaults, Fault
    PROVE  faults' \in 0 .. MaxFaults /\ faults' # 0
  BY UrlCheckBoundsAssumption DEF Fault

LEMMA HeldRecord ==
    ASSUME TypeOK, NEW c \in Checkers, check[c] # Idle
    PROVE  check[c] \in Held
  BY DEF TypeOK, Check, Held

LEMMA AtIsHeld ==
    ASSUME TypeOK, NEW c \in Checkers, check[c].at \in {"asking", "answered", "recorded"}
    PROVE  check[c] # Idle /\ check[c] \in Held
  BY DEF TypeOK, Check, Held, Idle

LEMMA HeldIsAt ==
    ASSUME NEW k \in Held
    PROVE  k # Idle /\ k \in Check /\ k.at # "idle"
  BY DEF Held, Check, Idle

LEMMA TypeStep ==
    ASSUME TypeOK, [Next]_vars
    PROVE  TypeOK'
<1> USE UrlCheckBoundsAssumption
<1>1. CASE UNCHANGED vars
  BY <1>1 DEF vars, TypeOK
<1>2. ASSUME NEW u \in Urls, Add(u)
      PROVE  TypeOK'
  BY <1>2 DEF Add, TypeOK, Row
<1>3. CASE Delete
  BY <1>3 DEF Delete, TypeOK
<1>4. ASSUME NEW c \in Checkers, Select(c)
      PROVE  TypeOK'
  <2>1. PICK r \in rows :
           /\ check' = [check EXCEPT ![c] =
                           [at |-> "asking", id |-> r.id, url |-> r.url, result |-> 0]]
           /\ overlapped' = IF Busy(r.id) THEN overlapped \cup {r.id} ELSE overlapped
    BY <1>4 DEF Select
  <2>2. check' \in [Checkers -> Check]
    BY <2>1 DEF TypeOK, Row, Check
  <2> QED
    BY <1>4, <2>1, <2>2 DEF Select, TypeOK, Row
<1>5. ASSUME NEW c \in Checkers, Answer(c)
      PROVE  TypeOK'
  <2>1. check[c] \in Held
    BY <1>5, AtIsHeld DEF Answer
  <2>2. check' \in [Checkers -> Check]
    <3>1. answers + 1 \in Nat
      BY DEF TypeOK
    <3>2. \A k \in Held : [k EXCEPT !.at = "answered", !.result = answers + 1] \in Held
      BY <3>1 DEF Held
    <3> QED
      BY <1>5, <2>1, <3>2, HeldIsAt DEF Answer, TypeOK
  <2>3. answers' \in 0 .. MaxAnswers
    BY <1>5 DEF Answer, TypeOK
  <2> QED
    BY <1>5, <2>2, <2>3 DEF Answer, TypeOK
<1>6. ASSUME NEW c \in Checkers, Record(c)
      PROVE  TypeOK'
  <2>1. check[c] \in Held
    BY <1>6, AtIsHeld DEF Record
  <2>2. check' \in [Checkers -> Check]
    BY <1>6, <2>1 DEF Record, TypeOK, Check, Held
  <2>3. history' \subseteq Entry
    BY <1>6, <2>1 DEF Record, TypeOK, Entry, Held
  <2> QED
    BY <1>6, <2>2, <2>3 DEF Record, TypeOK
<1>7. ASSUME NEW c \in Checkers, Update(c)
      PROVE  TypeOK'
  <2>1. check[c] \in Held
    BY <1>7, AtIsHeld DEF Update
  <2>2. check' \in [Checkers -> Check]
    BY <1>7 DEF Update, TypeOK, Check
  <2>3. rows' \subseteq Row /\ \A r \in rows' : r.id \in 1 .. lastId
    BY <1>7, <2>1 DEF Update, TypeOK, Row, Held
  <2> QED
    BY <1>7, <2>2, <2>3 DEF Update, TypeOK
<1>8. ASSUME NEW c \in Checkers, StatementFails(c)
      PROVE  TypeOK'
  BY <1>8, FaultCounts DEF StatementFails, TypeOK, Check
<1>9. CASE Restart
  BY <1>9, FaultCounts DEF Restart, TypeOK, Check
<1> QED
  BY <1>1, <1>2, <1>3, <1>4, <1>5, <1>6, <1>7, <1>8, <1>9 DEF Next, Finish

\* TypeOK: URLs, history and checks have their types in every state.
THEOREM TypeCorrect == Spec => []TypeOK
<1>1. Init => TypeOK
  BY UrlCheckBoundsAssumption DEF Init, TypeOK, Check
<1> QED
  BY <1>1, TypeStep, PTL DEF Spec

-----------------------------------------------------------------------------
(***************************************************************************)
(* What each step does to the handlers.                                    *)
(***************************************************************************)
Others(c) == \A d \in Checkers : d # c => check'[d] = check[d]

Leaves(c) == check'[c] = Idle /\ check'[c].at = "idle" /\ Others(c)

Keeps(c, at) ==
    /\ check[c] # Idle /\ check'[c] # Idle
    /\ check'[c].at = at
    /\ check'[c].id = check[c].id /\ check'[c].url = check[c].url
    /\ Others(c)

LEMMA SelectDoes ==
    ASSUME TypeOK, NEW c \in Checkers, Select(c)
    PROVE  \E r \in rows :
              /\ check[c] = Idle /\ check'[c] # Idle
              /\ check'[c].at = "asking" /\ check'[c].id = r.id /\ check'[c].url = r.url
              /\ Others(c)
              /\ overlapped' = IF Busy(r.id) THEN overlapped \cup {r.id} ELSE overlapped
<1>1. PICK r \in rows :
         /\ check' = [check EXCEPT ![c] =
                         [at |-> "asking", id |-> r.id, url |-> r.url, result |-> 0]]
         /\ overlapped' = IF Busy(r.id) THEN overlapped \cup {r.id} ELSE overlapped
  BY DEF Select
<1>2. check'[c] = [at |-> "asking", id |-> r.id, url |-> r.url, result |-> 0]
  BY <1>1 DEF TypeOK
<1>3. check'[c] # Idle
  BY <1>2 DEF Idle
<1>4. Others(c)
  BY <1>1 DEF Others, TypeOK
<1>5. /\ check[c] = Idle
      /\ check'[c].at = "asking" /\ check'[c].id = r.id /\ check'[c].url = r.url
  BY <1>2 DEF Select
<1> QED
  BY <1>1, <1>3, <1>4, <1>5

LEMMA AnswerDoes ==
    ASSUME TypeOK, NEW c \in Checkers, Answer(c)
    PROVE  Keeps(c, "answered") /\ check'[c].result = answers + 1
<1>1. check[c] # Idle /\ check[c] \in Held
  BY AtIsHeld DEF Answer
<1>2. check'[c] = [check[c] EXCEPT !.at = "answered", !.result = answers + 1]
  BY DEF Answer, TypeOK
<1>3. /\ check'[c].at = "answered" /\ check'[c].result = answers + 1
      /\ check'[c].id = check[c].id /\ check'[c].url = check[c].url
  BY <1>1, <1>2 DEF Held
<1>4. check'[c] # Idle
  BY <1>3 DEF Idle
<1>5. Others(c)
  BY DEF Others, Answer, TypeOK
<1> QED
  BY <1>1, <1>3, <1>4, <1>5 DEF Keeps

LEMMA RecordDoes ==
    ASSUME TypeOK, NEW c \in Checkers, Record(c)
    PROVE  Keeps(c, "recorded") /\ check'[c].result = check[c].result
<1>1. check[c] # Idle /\ check[c] \in Held
  BY AtIsHeld DEF Record
<1>2. check'[c] = [check[c] EXCEPT !.at = "recorded"]
  BY DEF Record, TypeOK
<1>3. /\ check'[c].at = "recorded" /\ check'[c].result = check[c].result
      /\ check'[c].id = check[c].id /\ check'[c].url = check[c].url
  BY <1>1, <1>2 DEF Held
<1>4. check'[c] # Idle
  BY <1>3 DEF Idle
<1>5. Others(c)
  BY DEF Others, Record, TypeOK
<1> QED
  BY <1>1, <1>3, <1>4, <1>5 DEF Keeps

LEMMA LeaveDoes ==
    ASSUME TypeOK, NEW c \in Checkers, Update(c) \/ StatementFails(c)
    PROVE  Leaves(c) /\ check[c] # Idle
<1>1. check[c] # Idle
  BY AtIsHeld DEF Update, StatementFails
<1>2. check' = [check EXCEPT ![c] = Idle]
  BY DEF Update, StatementFails
<1> QED
  BY <1>1, <1>2 DEF Leaves, Others, TypeOK, Idle

\* The rows an update leaves are those there were, with the same id and URL.
LEMMA UpdateDoes ==
    ASSUME TypeOK, NEW c \in Checkers, Update(c)
    PROVE  \A r \in rows' : \E q \in rows :
              /\ r = IF q.id = check[c].id THEN [q EXCEPT !.shown = check[c].result] ELSE q
              /\ r.id = q.id /\ r.url = q.url
              /\ r.shown = IF q.id = check[c].id THEN check[c].result ELSE q.shown
  BY DEF Update, TypeOK, Row

-----------------------------------------------------------------------------
(***************************************************************************)
(* Ids                                                                     *)
(***************************************************************************)
LEMMA IdStep ==
    ASSUME TypeOK, IdInv, [Next]_vars
    PROVE  IdInv'
<1> USE DEF IdInv, HistoryIsOfItsUrl, History
<1>1. CASE UNCHANGED vars
  BY <1>1 DEF vars
<1>2. ASSUME NEW u \in Urls, Add(u)
      PROVE  IdInv'
  <2>1. lastId \in Nat /\ \A r \in rows : r.id <= lastId
    BY DEF TypeOK
  <2>2. \A r \in rows' : r \in rows \/ (r.id = lastId + 1 /\ r = [id |-> lastId + 1, url |-> u, shown |-> 0])
    BY <1>2 DEF Add
  <2>3. \A c \in Checkers : check[c] # Idle => check[c].id \in Nat
    BY HeldRecord DEF Held
  <2>4. \A h \in history : h.id \in Nat
    BY DEF TypeOK, Entry
  <2>5. lastId' = lastId + 1 /\ history' = history /\ check' = check
    BY <1>2 DEF Add
  <2>6. \A r \in rows : r.id \in Nat
    BY DEF TypeOK, Row
  <2>7. \A q, r \in rows' : q.id = r.id => q = r
    BY <2>1, <2>2, <2>6
  <2>8. HistoryIsOfItsUrl'
    BY <2>1, <2>2, <2>4, <2>5
  <2>9. \A r \in rows' : \A c \in Checkers :
           check'[c] # Idle /\ check'[c].id = r.id => check'[c].url = r.url
    BY <2>1, <2>2, <2>3, <2>5
  <2> QED
    BY <2>1, <2>3, <2>4, <2>5, <2>7, <2>8, <2>9
<1>3. CASE Delete
  BY <1>3 DEF Delete
<1>4. ASSUME NEW c \in Checkers, Select(c)
      PROVE  IdInv'
  <2>1. PICK r \in rows :
           check'[c].id = r.id /\ check'[c].url = r.url /\ Others(c)
    BY <1>4, SelectDoes
  <2>2. r.id <= lastId
    BY DEF TypeOK
  <2> QED
    BY <1>4, <2>1, <2>2 DEF Select, Others
<1>5. ASSUME NEW c \in Checkers, Answer(c)
      PROVE  IdInv'
  <2>1. Keeps(c, "answered") /\ UNCHANGED <<rows, lastId, history>>
    BY <1>5, AnswerDoes DEF Answer
  <2> QED
    BY <2>1 DEF Keeps, Others
<1>6. ASSUME NEW c \in Checkers, Record(c)
      PROVE  IdInv'
  <2>1. \A h \in history' : h \in history \/ (h.id = check[c].id /\ h.url = check[c].url)
    BY <1>6 DEF Record
  <2>2. Keeps(c, "recorded") /\ UNCHANGED <<rows, lastId>>
    BY <1>6, RecordDoes DEF Record
  <2> QED
    BY <2>1, <2>2 DEF Keeps, Others
<1>7. ASSUME NEW c \in Checkers, Update(c)
      PROVE  IdInv'
  <2>1. \A q, r \in rows' : q.id = r.id => q = r
    BY <1>7, UpdateDoes
  <2>0. history' = history /\ lastId' = lastId
    BY <1>7 DEF Update
  <2>2. HistoryIsOfItsUrl'
    BY <1>7, <2>0, UpdateDoes
  <2>3. \A r \in rows' : \A d \in Checkers :
           check'[d] # Idle /\ check'[d].id = r.id => check'[d].url = r.url
    BY <1>7, UpdateDoes, LeaveDoes DEF Leaves, Others
  <2> QED
    BY <1>7, <2>0, <2>1, <2>2, <2>3, LeaveDoes DEF Leaves, Others
<1>8. ASSUME NEW c \in Checkers, StatementFails(c)
      PROVE  IdInv'
  BY <1>8, LeaveDoes DEF StatementFails, Leaves, Others
<1>9. CASE Restart
  BY <1>9 DEF Restart
<1> QED
  BY <1>1, <1>2, <1>3, <1>4, <1>5, <1>6, <1>7, <1>8, <1>9 DEF Next, Finish

\* HistoryIsOfItsUrl: the history under a row's id is that of the row's URL, although
\* entries outlive their URLs and late checks of deleted ones add more.
THEOREM HistorySafe == Spec => []HistoryIsOfItsUrl
<1>1. Init => IdInv
  BY DEF Init, IdInv, HistoryIsOfItsUrl, History
<1>2. IdInv => HistoryIsOfItsUrl
  BY DEF IdInv
<1> QED
  BY <1>1, <1>2, TypeCorrect, IdStep, PTL DEF Spec

-----------------------------------------------------------------------------
(***************************************************************************)
(* What is shown                                                           *)
(***************************************************************************)
LEMMA ShownStep ==
    ASSUME TypeOK, ShownInv, [Next]_vars
    PROVE  ShownInv'
<1> USE DEF ShownInv, EntryOf
<1>1. CASE UNCHANGED vars
  BY <1>1 DEF vars
<1>2. ASSUME NEW u \in Urls, Add(u)
      PROVE  ShownInv'
  <2>1. \A r \in rows' : r \in rows \/ r.shown = 0
    BY <1>2 DEF Add
  <2> QED
    BY <1>2, <2>1 DEF Add
<1>3. CASE Delete
  BY <1>3 DEF Delete
<1>4. ASSUME NEW c \in Checkers, Select(c)
      PROVE  ShownInv'
  <2>1. check'[c].at = "asking" /\ Others(c) /\ UNCHANGED <<rows, history>>
    BY <1>4, SelectDoes DEF Select
  <2> QED
    BY <2>1 DEF Others
<1>5. ASSUME NEW c \in Checkers, Answer(c)
      PROVE  ShownInv'
  <2>1. check'[c].at = "answered" /\ Others(c) /\ UNCHANGED <<rows, history>>
    BY <1>5, AnswerDoes DEF Answer, Keeps
  <2> QED
    BY <2>1 DEF Others
<1>6. ASSUME NEW c \in Checkers, Record(c)
      PROVE  ShownInv'
  <2>1. history' = history \cup {EntryOf(c)} /\ rows' = rows
    BY <1>6 DEF Record
  <2>2. /\ check'[c].id = check[c].id /\ check'[c].url = check[c].url
        /\ check'[c].result = check[c].result /\ Others(c)
    BY <1>6, RecordDoes DEF Keeps
  <2>3. EntryOf(c)' \in history'
    BY <2>1, <2>2
  <2> QED
    BY <2>1, <2>2, <2>3 DEF Others
<1>7. ASSUME NEW c \in Checkers, Update(c)
      PROVE  ShownInv'
  <2>1. EntryOf(c) \in history /\ history' = history
    BY <1>7 DEF Update
  <2>2. check'[c].at = "idle" /\ Others(c)
    BY <1>7, LeaveDoes DEF Leaves
  <2>3. \A r \in rows' : r.shown # 0 => \E h \in history : h.id = r.id /\ h.result = r.shown
    BY <1>7, <2>1, UpdateDoes
  <2> QED
    BY <2>1, <2>2, <2>3 DEF Others
<1>8. ASSUME NEW c \in Checkers, StatementFails(c)
      PROVE  ShownInv'
  <2>1. check'[c].at = "idle" /\ Others(c) /\ UNCHANGED <<rows, history>>
    BY <1>8, LeaveDoes DEF Leaves, StatementFails
  <2> QED
    BY <2>1 DEF Others
<1>9. CASE Restart
  BY <1>9 DEF Restart, Idle
<1> QED
  BY <1>1, <1>2, <1>3, <1>4, <1>5, <1>6, <1>7, <1>8, <1>9 DEF Next, Finish

LEMMA NewestAfterAdd ==
    ASSUME TypeOK, IdInv, NewestInv, NEW u \in Urls, Add(u)
    PROVE  NewestInv'
<1>1. UNCHANGED <<history, check, answers, faults, overlapped>>
  BY DEF Add
<1>2. ASSUME NEW r \in rows', r \notin rows
      PROVE  Newest(r)'
  <2>1. r.id = lastId + 1 /\ lastId \in Nat
    BY <1>2 DEF Add, TypeOK
  <2>2. \A c \in Checkers : check[c] # Idle => check[c].id # r.id
    BY <2>1, HeldRecord DEF IdInv, Held
  <2>3. \A h \in history : h.id # r.id
    BY <2>1 DEF IdInv, TypeOK, Entry
  <2>4. \A c \in Checkers : check[c].at \in {"answered", "recorded"} => check[c].id # r.id
    BY <2>2, AtIsHeld
  <2> QED
    BY <1>1, <2>2, <2>3, <2>4 DEF Newest
<1> QED
  BY <1>1, <1>2 DEF NewestInv, Newest

LEMMA NewestAfterSelect ==
    ASSUME TypeOK, IdInv, NewestInv, NEW c \in Checkers, Select(c)
    PROVE  NewestInv'
<1>1. PICK q \in rows :
         /\ check[c] = Idle
         /\ check'[c].at = "asking" /\ check'[c].id = q.id
         /\ Others(c)
         /\ overlapped' = IF Busy(q.id) THEN overlapped \cup {q.id} ELSE overlapped
  BY SelectDoes
<1>2. UNCHANGED <<rows, history, answers, faults>>
  BY DEF Select
<1>3. check[c].at = "idle"
  BY <1>1 DEF Idle
<1>4. ASSUME NEW r \in rows, r.id \notin overlapped'
      PROVE  Newest(r)'
  <2>1. Newest(r)
    BY <1>1, <1>4 DEF NewestInv
  <2>2. r.id = q.id => ~Busy(q.id)
    BY <1>1, <1>4
  <2>3. \A d \in Checkers : check'[d] # Idle /\ check'[d].id = r.id =>
           \/ d = c /\ r.id = q.id
           \/ d # c /\ check[d] # Idle /\ check[d].id = r.id /\ r.id # q.id
    BY <1>1, <2>2 DEF Others, Busy
  <2> QED
    BY <1>1, <1>2, <1>3, <2>1, <2>3 DEF Newest, Others
<1> QED
  BY <1>1, <1>2, <1>4 DEF NewestInv, Others

LEMMA NewestAfterAnswer ==
    ASSUME TypeOK, NewestInv, NEW c \in Checkers, Answer(c)
    PROVE  NewestInv'
<1>1. Keeps(c, "answered") /\ check'[c].result = answers + 1 /\ check[c].at = "asking"
  BY AnswerDoes DEF Answer
<1>2. UNCHANGED <<rows, history, faults, overlapped>> /\ answers' = answers + 1 /\ answers \in Nat
  BY DEF Answer, TypeOK
<1>3. \A h \in history : h.result \in Nat /\ h.result <= answers
  BY DEF TypeOK, Entry, NewestInv
<1>4. \A d \in Checkers : check[d].at \in {"answered", "recorded"} =>
         check[d].result \in Nat /\ check[d].result <= answers
  BY AtIsHeld DEF Held, NewestInv
<1>5. ASSUME NEW r \in rows, r.id \notin overlapped
      PROVE  Newest(r)'
  <2>1. Newest(r)
    BY <1>5 DEF NewestInv
  <2> QED
    BY <1>1, <1>2, <1>3, <2>1 DEF Newest, Keeps, Others
<1> QED
  BY <1>1, <1>2, <1>3, <1>4, <1>5 DEF NewestInv, Keeps, Others

LEMMA NewestAfterRecord ==
    ASSUME TypeOK, NewestInv, NEW c \in Checkers, Record(c)
    PROVE  NewestInv'
<1>1. /\ Keeps(c, "recorded") /\ check'[c].result = check[c].result
      /\ check[c].at = "answered" /\ check[c] # Idle /\ check[c].result \in Nat
  BY RecordDoes, AtIsHeld DEF Record, Held
<1>2. UNCHANGED <<rows, answers, faults, overlapped>>
  BY DEF Record
<1>3. \A h \in history' :
         h \in history \/ (h.id = check[c].id /\ h.result = check[c].result)
  BY DEF Record
<1>4. ASSUME NEW r \in rows, r.id \notin overlapped
      PROVE  Newest(r)'
  <2>1. Newest(r)
    BY <1>4 DEF NewestInv
  <2>2. CASE r.id = check[c].id
    <3>1. \A d \in Checkers : check[d].at \in {"answered", "recorded"} /\ check[d].id = r.id => d = c
      BY <1>1, <2>1, <2>2, AtIsHeld DEF Newest
    <3> QED
      BY <1>1, <1>2, <1>3, <2>1, <2>2, <3>1 DEF Newest, Keeps, Others
  <2>3. CASE r.id # check[c].id
    <3>1. \A h \in history' : h.id = r.id => h \in history
      BY <1>3, <2>3
    <3> QED
      BY <1>1, <1>2, <2>1, <2>3, <3>1 DEF Newest, Keeps, Others
  <2> QED
    BY <2>2, <2>3
<1> QED
  BY <1>1, <1>2, <1>3, <1>4 DEF NewestInv, Keeps, Others

LEMMA NewestAfterUpdate ==
    ASSUME TypeOK, NewestInv, NEW c \in Checkers, Update(c)
    PROVE  NewestInv'
<1>1. Leaves(c) /\ check[c] # Idle /\ check[c].at = "recorded"
  BY LeaveDoes DEF Update
<1>2. UNCHANGED <<history, answers, faults, overlapped>>
  BY DEF Update
<1>3. ASSUME NEW r \in rows', r.id \notin overlapped
      PROVE  Newest(r)'
  <2>1. PICK q \in rows :
           /\ r.id = q.id
           /\ r.shown = IF q.id = check[c].id THEN check[c].result ELSE q.shown
    BY UpdateDoes
  <2>2. Newest(q)
    BY <1>3, <2>1 DEF NewestInv
  <2>3. CASE q.id = check[c].id
    BY <1>1, <1>2, <2>1, <2>2, <2>3 DEF Newest, Leaves, Others
  <2>4. CASE q.id # check[c].id
    BY <1>1, <1>2, <2>1, <2>2, <2>4 DEF Newest, Leaves, Others
  <2> QED
    BY <2>3, <2>4
<1> QED
  BY <1>1, <1>2, <1>3 DEF NewestInv, Leaves, Others

LEMMA NewestStep ==
    ASSUME TypeOK, IdInv, NewestInv, [Next]_vars
    PROVE  NewestInv'
<1>1. CASE UNCHANGED vars
  BY <1>1 DEF vars, NewestInv, Newest
<1>2. CASE Delete
  BY <1>2 DEF Delete, NewestInv, Newest
<1>3. ASSUME NEW c \in Checkers, StatementFails(c)
      PROVE  NewestInv'
  <2>1. Leaves(c) /\ UNCHANGED <<rows, history, answers, overlapped>>
    BY <1>3, LeaveDoes DEF StatementFails
  <2>2. faults' # 0
    BY <1>3, FaultCounts DEF StatementFails, TypeOK
  <2> QED
    BY <2>1, <2>2 DEF NewestInv, Newest, Leaves, Others
<1>4. CASE Restart
  <2>1. faults' # 0
    BY <1>4, FaultCounts DEF Restart, TypeOK
  <2>2. \A c \in Checkers : check'[c] = Idle /\ check'[c].at = "idle"
    BY <1>4 DEF Restart, Idle
  <2> QED
    BY <1>4, <2>1, <2>2 DEF Restart, NewestInv, Newest
<1> QED
  BY <1>1, <1>2, <1>3, <1>4, NewestAfterAdd, NewestAfterSelect, NewestAfterAnswer,
     NewestAfterRecord, NewestAfterUpdate DEF Next, Finish

\* ShownIsNewest: the status in the list is in the history, and the newest there
\* when no check of the URL is under way, unless a statement failed, the server
\* stopped or two checks of the URL overlapped.
THEOREM ShownSafe == Spec => []ShownIsNewest
<1>1. Init => IdInv /\ ShownInv /\ NewestInv
  BY DEF Init, IdInv, HistoryIsOfItsUrl, History, ShownInv, NewestInv, Idle
<1>2. TypeOK /\ ShownInv /\ NewestInv => ShownIsNewest
  <2> SUFFICES ASSUME TypeOK, ShownInv, NewestInv, NEW r \in rows
               PROVE  /\ r.shown # 0 => \E h \in History(r.id) : h.result = r.shown
                      /\ ~Busy(r.id) /\ r.id \notin overlapped /\ faults = 0 =>
                            \A h \in History(r.id) : h.result <= r.shown
    BY DEF ShownIsNewest
  <2>1. ~Busy(r.id) => ~\E c \in Checkers : check[c].at = "recorded" /\ check[c].id = r.id
    BY AtIsHeld DEF Busy
  <2> QED
    BY <2>1 DEF ShownInv, NewestInv, Newest, History
<1> QED
  BY <1>1, <1>2, TypeCorrect, IdStep, ShownStep, NewestStep, PTL DEF Spec
=============================================================================
