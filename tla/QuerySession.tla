---------------------------- MODULE QuerySession ----------------------------
(***************************************************************************)
(* The read transactions of DeviceService (tools/device_service.py) with   *)
(* run_query and run_history of tools/til90_cli.py: a series of queries,   *)
(* each waiting for a frame of the type it expects, or one health query    *)
(* and a stream of history records that ends with a completion response.   *)
(* An operating system error closes the port and the whole transaction is  *)
(* tried again on a new connection; every other exception ends it.  The    *)
(* service's lock makes transactions follow one another.                   *)
(*                                                                         *)
(* The node answers requests in the order they were sent and as late as it *)
(* likes, and no frame says which request it answers: what an abandoned    *)
(* request still has coming is met by the requests after it.  The frames   *)
(* of the model carry the number of their request for the properties only. *)
(***************************************************************************)
EXTENDS Naturals, Sequences, FiniteSets

CONSTANTS
  Selections,   \* the series of query names that read is asked for
  BackupNames,  \* BACKUP_QUERIES
  MaxNode,      \* bound: sensors that hang on the line one after the other
  Retries,      \* read_retries
  MaxRecords,   \* max_records of a history request
  MaxHeld,      \* bound: records a node holds in one range
  MaxRequests   \* bound: requests in one behaviour

Call == [kind : {"read"}, names : Selections]
          \cup [kind : {"backup"}, names : {BackupNames}]
          \cup [kind : {"history"}, names : {<<"health">>}]

Name == {"health"} \cup UNION {{c.names[i] : i \in 1 .. Len(c.names)} : c \in Call}

\* AM type 0x00 with code 0, with the end-of-recovery code and with any other.
Response == {"ok", "end", "error"}

ASSUME SessionAssumption ==
  /\ Retries \in Nat /\ MaxNode \in Nat \ {0} /\ MaxHeld \in Nat /\ MaxRequests \in Nat
  /\ MaxRecords \in Nat \ {0}
  /\ Selections \subseteq Seq(STRING) /\ BackupNames \in Seq(STRING)
  /\ << >> \notin Selections /\ BackupNames # << >>
  /\ Name \cap (Response \cup {"record", "history", "write"}) = {}

VARIABLES
  node,       \* the sensor at the other end
  req,        \* requests sent and not yet served, oldest first
  rep,        \* frames on their way to the host or not yet read, oldest first
  call,       \* the transaction that runs, or ran last
  pc,         \* where it is
  attempt,    \* failed connections of the transaction
  results,    \* results of the series, over the running attempt
  own,        \* number of the request whose answer is awaited
  records,    \* what run_history has collected
  outcome,    \* what the last transaction ended with
  sent,       \* history: the kind of every request sent
  abandoned,  \* history: requests whose wait ended without their answer
  lost,       \* history: was a record of the awaited request lost?
  closed      \* history: the completion response that was taken

line   == <<node, req, rep>>
ghosts == <<sent, abandoned, lost, closed>>
vars   == <<node, req, rep, call, pc, attempt, results, own, records, outcome,
            sent, abandoned, lost, closed>>

Node == 1 .. MaxNode

Frame == [kind : Name \cup Response \cup {"record"}, id : 1 .. MaxRequests,
          n : 0 .. MaxHeld, node : Node]
Result == [name : Name, own : 1 .. MaxRequests, from : 0 .. MaxRequests,
           status : {"ok", "empty", "failed"}, node : Node]

None == [kind |-> "none"]

TypeOK ==
  /\ node \in Node
  /\ req \in Seq([kind : Name \cup {"history", "write"}, id : 1 .. MaxRequests,
                  n : 0 .. MaxHeld])
  /\ rep \in Seq(Frame)
  /\ call \in Call
  /\ pc \in {"idle", "open", "send", "await", "decide", "history", "records"}
  /\ attempt \in 0 .. Retries
  /\ results \in Seq(Result) /\ Len(results) <= Len(call.names)
  /\ own \in 0 .. Len(sent)
  /\ records \in Seq(Frame) /\ Len(records) <= MaxRecords
  /\ outcome \in {"none", "returned", "snapshot", "raised", "complete",
                  "device_error", "identity_error", "limit_error", "timeout"}
  /\ sent \in Seq(Name \cup {"history", "write"}) /\ Len(sent) <= MaxRequests
  /\ abandoned \subseteq 1 .. Len(sent)
  /\ lost \in BOOLEAN
  /\ closed \in Frame \cup {None}

Init ==
  /\ node = 1 /\ req = << >> /\ rep = << >>
  /\ call = [kind |-> "history", names |-> <<"health">>]
  /\ pc = "idle" /\ attempt = 0 /\ results = << >>
  /\ own = 0 /\ records = << >> /\ outcome = "none"
  /\ sent = << >> /\ abandoned = {} /\ lost = FALSE /\ closed = None

-----------------------------------------------------------------------------
(* The node and the line (external). *)

Emit(kind, m) ==
  rep' = Append(rep, [kind |-> kind, id |-> m.id, n |-> m.n, node |-> node])

\* An answer, or a response code in its place.
Serve ==
  /\ req # << >>
  /\ LET m == Head(req) IN
       /\ \/ m.kind \in Name /\ Emit(m.kind, m)
          \/ m.kind = "write" /\ Emit("ok", m)
          \/ m.kind = "history" /\ Emit("end", m)
          \/ Emit("error", m)
       /\ req' = Tail(req)
  /\ UNCHANGED <<node, lost>>

\* A record of the range; the completion response says in its ghost field
\* how many there were.
SendRecord ==
  /\ req # << >> /\ Head(req).kind = "history" /\ Head(req).n < MaxHeld
  /\ Emit("record", Head(req))
  /\ req' = [req EXCEPT ![1] = [kind |-> "history", id |-> Head(req).id,
                                n |-> Head(req).n + 1]]
  /\ UNCHANGED <<node, lost>>

\* A corrupted frame is as good as lost; so is a corrupted request, whose
\* answer is missing in the same way.
Lose ==
  /\ rep # << >> /\ rep' = Tail(rep)
  /\ lost' = (lost \/ (Head(rep).kind = "record" /\ Head(rep).id = own))
  /\ UNCHANGED <<node, req>>

\* Another sensor is attached; frames that left the first one are kept.
Swap ==
  /\ node < MaxNode /\ node' = node + 1
  /\ req' = << >>
  /\ UNCHANGED <<rep, lost>>

NodeStep ==
  /\ Serve \/ SendRecord \/ Lose \/ Swap
  /\ UNCHANGED <<call, pc, attempt, results, own, records, outcome, sent,
                 abandoned, closed>>

Send(kind) ==
  /\ Len(sent) < MaxRequests
  /\ sent' = Append(sent, kind)
  /\ req' = Append(req, [kind |-> kind, id |-> Len(sent'), n |-> 0])

\* A write of one of the other flows that ended without its acknowledgement.
AbandonedWrite ==
  /\ pc = "idle"
  /\ Send("write")
  /\ abandoned' = abandoned \cup {Len(sent')}
  /\ UNCHANGED <<node, rep, call, pc, attempt, results, own, records,
                 outcome, lost, closed>>

-----------------------------------------------------------------------------
(* _read_transaction. *)

Begin ==
  /\ pc = "idle"
  /\ call' \in Call
  /\ pc' = "open" /\ attempt' = 0 /\ outcome' = "none"
  /\ results' = << >> /\ records' = << >> /\ own' = 0
  /\ lost' = FALSE /\ closed' = None
  /\ UNCHANGED <<line, sent, abandoned>>

\* Mutant: the list of results is made once per call, and a retry goes on
\* behind the answers it already has.
Open_KeepsResults ==
  /\ pc = "open"
  /\ \E n \in 0 .. Len(rep) : rep' = SubSeq(rep, n + 1, Len(rep))
  /\ records' = << >>
  /\ pc' = IF Len(results) = Len(call.names) THEN "decide" ELSE "send"
  /\ UNCHANGED <<node, req, call, attempt, results, own, outcome, ghosts>>

\* Opening the port drops what has already arrived.
Open ==
  /\ pc = "open"
  /\ \E n \in 0 .. Len(rep) : rep' = SubSeq(rep, n + 1, Len(rep))
  /\ results' = << >> /\ records' = << >>
  /\ pc' = "send"
  /\ UNCHANGED <<node, req, call, attempt, own, outcome, ghosts>>

\* Nothing survives an exception.
Ends(o) == /\ pc' = "idle" /\ outcome' = o
           /\ IF o = "raised" THEN results' = << >> /\ records' = << >>
              ELSE UNCHANGED <<results, records>>
           /\ UNCHANGED <<call, attempt, own>>

Awaiting == pc \in {"await", "records"}

\* Mutant: a connection error does not count as an attempt.
Disconnect_Uncounted ==
  /\ pc \in {"open", "send", "await", "history", "records"}
  /\ abandoned' = IF Awaiting THEN abandoned \cup {own} ELSE abandoned
  /\ pc' = "open"
  /\ UNCHANGED <<line, call, attempt, own, outcome, results, records,
                 sent, lost, closed>>

\* Mutant: one attempt more than read_retries allows.
Disconnect_OneMore ==
  /\ pc \in {"open", "send", "await", "history", "records"}
  /\ abandoned' = IF Awaiting THEN abandoned \cup {own} ELSE abandoned
  /\ \/ /\ attempt <= Retries
        /\ attempt' = attempt + 1 /\ pc' = "open"
        /\ UNCHANGED <<call, own, outcome, results, records>>
     \/ attempt > Retries /\ Ends("raised")
  /\ UNCHANGED <<line, sent, lost, closed>>

\* OSError or SerialException, from the opening or from any read or write.
Disconnect ==
  /\ pc \in {"open", "send", "await", "history", "records"}
  /\ abandoned' = IF Awaiting THEN abandoned \cup {own} ELSE abandoned
  /\ \/ /\ attempt < Retries
        /\ attempt' = attempt + 1 /\ pc' = "open"
        /\ UNCHANGED <<call, own, outcome, results, records>>
     \/ attempt = Retries /\ Ends("raised")
  /\ UNCHANGED <<line, sent, lost, closed>>

\* No port, a short write, or a frame the parser or the header refuses: an
\* exception that is no operating system error is not retried.
Raise ==
  /\ pc \in {"open", "send", "await", "history", "records"}
  /\ abandoned' = IF Awaiting THEN abandoned \cup {own} ELSE abandoned
  /\ Ends("raised")
  /\ UNCHANGED <<line, sent, lost, closed>>

-----------------------------------------------------------------------------
(* run_query, one after the other for the names of the series. *)

Current == call.names[Len(results) + 1]

SendQuery ==
  /\ pc = "send"
  /\ Send(Current)
  /\ own' = Len(sent')
  /\ pc' = "await"
  /\ UNCHANGED <<node, rep, call, attempt, results, records, outcome,
                 abandoned, lost, closed>>

\* The result is appended; the series goes on whatever its status is.
Conclude(status, from) ==
  /\ results' = Append(results, [name |-> Current, own |-> own, from |-> from,
                                 status |-> status,
                                 node |-> IF from = 0 THEN node ELSE Head(rep).node])
  /\ pc' = IF Len(results') = Len(call.names) THEN "decide" ELSE "send"
  /\ UNCHANGED <<node, req, call, attempt, own, records, outcome, sent, lost, closed>>

\* The frame acted on is consumed with any number of those behind it: they
\* were in the chunk that was read and go with the parser.
Consumed == \E n \in 1 .. Len(rep) : rep' = SubSeq(rep, n + 1, Len(rep))

Arrives(kinds) == rep # << >> /\ Head(rep).kind \in kinds

\* Mutant: the answer stays in a buffer and is met again.
TakeAnswer_Again ==
  /\ pc = "await" /\ Arrives({Current})
  /\ \E s \in {"ok", "failed"} : Conclude(s, Head(rep).id)
  /\ UNCHANGED <<rep, abandoned>>

\* The first frame of the expected type is the answer, whoever asked for it;
\* its decoder may raise.
TakeAnswer ==
  /\ pc = "await" /\ Arrives({Current}) /\ Consumed
  /\ \E s \in {"ok", "failed"} : Conclude(s, Head(rep).id)
  /\ UNCHANGED abandoned

Forsake(id) == abandoned' = IF id = own THEN abandoned ELSE abandoned \cup {own}

\* Any response ends the wait; one with code 0 is "ok" and has no data.
TakeResponse ==
  /\ pc = "await" /\ Arrives(Response) /\ Consumed
  /\ Conclude(IF Head(rep).kind = "ok" THEN "empty" ELSE "failed", Head(rep).id)
  /\ Forsake(Head(rep).id)

SkipFrame ==
  /\ pc = "await" /\ rep # << >> /\ Head(rep).kind \notin Response \cup {Current}
  /\ rep' = Tail(rep)
  /\ UNCHANGED <<node, req, call, pc, attempt, results, own, records,
                 outcome, ghosts>>

QueryTimeout ==
  /\ pc = "await"
  /\ Conclude("failed", 0)
  /\ Forsake(0)
  /\ UNCHANGED rep

StatusIn(s) == \A i \in 1 .. Len(results) : results[i].status \in s

\* read returns the results; create_snapshot wants all of them "ok" and takes
\* no more than the header of the health result; history wants the health
\* result "ok".
Snapshot == \A i \in 1 .. Len(results) :
              \/ results[i].status = "ok"
              \/ results[i].status = "empty" /\ results[i].name = "health"

Decide ==
  /\ pc = "decide"
  /\ \/ call.kind = "read" /\ Ends("returned")
     \/ call.kind = "backup" /\ Ends(IF Snapshot THEN "snapshot" ELSE "raised")
     \/ /\ call.kind = "history" /\ StatusIn({"ok", "empty"})
        /\ pc' = "history"
        /\ UNCHANGED <<call, attempt, own, outcome, results, records>>
     \/ call.kind = "history" /\ ~ StatusIn({"ok", "empty"}) /\ Ends("raised")
  /\ UNCHANGED <<line, ghosts>>

-----------------------------------------------------------------------------
(* run_history. *)

SendHistory ==
  /\ pc = "history"
  /\ Send("history")
  /\ own' = Len(sent') /\ lost' = FALSE
  /\ pc' = "records"
  /\ UNCHANGED <<node, rep, call, attempt, results, records, outcome,
                 abandoned, closed>>

Identity == results[1].node

Receives(kinds) ==
  pc = "records" /\ Arrives(kinds) /\ Head(rep).node = Identity

TakeRecord ==
  /\ Receives({"record"}) /\ Len(records) < MaxRecords
  /\ records' = Append(records, Head(rep))
  /\ rep' = Tail(rep)
  /\ UNCHANGED <<node, req, call, pc, attempt, results, own, outcome, ghosts>>

SkipOther ==
  /\ Receives(Name)
  /\ rep' = Tail(rep)
  /\ UNCHANGED <<node, req, call, pc, attempt, results, own, records,
                 outcome, ghosts>>

\* run_history returns; records left on the line stay there.
Stops(o, id) == /\ Ends(o) /\ Forsake(id)
                /\ closed' = IF o = "complete" THEN Head(rep) ELSE None
                /\ UNCHANGED <<node, req, sent, lost>>

Complete == Receives({"end"}) /\ Consumed /\ Stops("complete", Head(rep).id)

OtherResponse ==
  Receives({"ok", "error"}) /\ Consumed /\ Stops("device_error", Head(rep).id)

\* One record too many, or max_bytes exceeded by the chunk.
Limit ==
  /\ pc = "records" /\ rep # << >>
  /\ Consumed /\ Stops("limit_error", 0)

OtherNode ==
  /\ pc = "records" /\ rep # << >> /\ Head(rep).node # Identity
  /\ Consumed /\ Stops("identity_error", 0)

HistoryTimeout == pc = "records" /\ Stops("timeout", 0) /\ UNCHANGED rep

-----------------------------------------------------------------------------
HostStep ==
  \/ Open \/ Disconnect \/ Raise
  \/ SendQuery \/ TakeAnswer \/ TakeResponse \/ SkipFrame \/ QueryTimeout
  \/ Decide
  \/ SendHistory \/ TakeRecord \/ SkipOther \/ Complete \/ OtherResponse
  \/ Limit \/ OtherNode \/ HistoryTimeout

Next == Begin \/ HostStep \/ NodeStep \/ AbandonedWrite

\* Every wait has a deadline, so a transaction that runs goes on; nobody has
\* to start one and the node owes nothing.
Spec == Init /\ [][Next]_vars /\ WF_vars(HostStep)

-----------------------------------------------------------------------------
(* Properties. *)

Fresh == results[1].from = results[1].own

\* A history result that is reported complete holds the records of its own
\* range, of the node whose identity was read, and every one that was not
\* lost, if the identity was the answer of its own request: the answers of
\* every earlier request have then been passed.  That it is not takes two
\* abandoned requests, one for the stale identity and one for the stale
\* completion behind it.
CompleteIsOwn ==
  outcome = "complete" /\ (Fresh \/ Cardinality(abandoned) <= 1)
    => /\ \A i \in 1 .. Len(records) :
            records[i].id = own /\ records[i].node = Identity
       /\ closed.id = own
       /\ lost \/ Len(records) = closed.n

OfName(r, s) == {i \in s : sent[i] = r.name}

\* A series may lag behind its requests, each query taking the answer of an
\* earlier one of its name, but by no more than were abandoned, and it never
\* takes an answer twice.
LagBounded ==
  \A k \in 1 .. Len(results) :
    LET r == results[k] IN
      r.status = "ok" =>
        /\ sent[r.from] = r.name
        /\ Cardinality(OfName(r, r.from + 1 .. r.own))
             <= Cardinality(OfName(r, abandoned \cap 1 .. r.own))
        /\ \A l \in 1 .. k - 1 : results[l].from < r.from

\* A snapshot has one answer per query, requested one after the other on one
\* connection, and the answers of these requests if none was abandoned before.
SnapshotWhole ==
  outcome = "snapshot" =>
    /\ [k \in 1 .. Len(results) |-> results[k].name] = BackupNames
    /\ \A k \in 1 .. Len(results) - 1 : results[k + 1].own = results[k].own + 1
    /\ abandoned = {} =>
         \A k \in 1 .. Len(results) : results[k].from = results[k].own

\* Every transaction returns or raises, whatever happens to the line.
Ended == pc # "idle" ~> pc = "idle"
=============================================================================
