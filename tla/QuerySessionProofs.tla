-------------------------- MODULE QuerySessionProofs --------------------------
(***************************************************************************)
(* Proofs about QuerySession for every series of names, every backup, and  *)
(* every number of retries, records, sensors and requests.                 *)
(***************************************************************************)
EXTENDS QuerySession, SequenceTheorems, FiniteSetTheorems, TLAPS

Position(s) == 1 .. Len(s)

-----------------------------------------------------------------------------
(* The invariants. *)

\* Which stage of which transaction a value of pc belongs to.
Stages ==
  /\ pc \in {"send", "await"} => Len(results) < Len(call.names)
  /\ pc \in {"decide", "history", "records"} => Len(results) = Len(call.names)
  /\ pc \in {"history", "records"} => call.kind = "history"
  /\ pc = "await" => sent[own] = Current
  /\ pc = "records" => sent[own] = "history"
  /\ Awaiting => own = Len(sent) /\ own > 0 /\ own \notin abandoned
  /\ outcome # "none" => pc = "idle"

\* A frame on the line comes before anything with a higher number; records
\* share their number with what ends their range.
Before(f, id) == f.id < id \/ (f.kind = "record" /\ f.id = id)

\* What a frame says about the request that it carries the number of.
Answers(f, s) ==
  /\ f.kind \in Name => s[f.id] = f.kind
  /\ f.kind \in {"record", "end"} => s[f.id] = "history"
  /\ f.kind = "ok" => s[f.id] = "write"

\* The line keeps the order of the requests.
InOrder ==
  /\ \A i \in Position(rep) : rep[i].id <= Len(sent) /\ Answers(rep[i], sent)
  /\ \A k \in Position(req) : req[k].id <= Len(sent) /\ sent[req[k].id] = req[k].kind
  /\ \A i, j \in Position(rep) : i < j => Before(rep[i], rep[j].id)
  /\ \A i, j \in Position(req) : i < j => req[i].id < req[j].id
  /\ \A i \in Position(rep) : \A k \in Position(req) : Before(rep[i], req[k].id)

\* The requests that frames are still coming of, and those among them whose
\* range of history is not finished.
Coming == {rep[i].id : i \in Position(rep)} \cup {req[k].id : k \in Position(req)}

RangeFrames == {i \in Position(rep) : rep[i].kind \in {"record", "end"}}
RangeRequests == {k \in Position(req) : req[k].kind = "history"}
Ranges == {rep[i].id : i \in RangeFrames} \cup {req[k].id : k \in RangeRequests}

\* Nobody waits for a write of another flow; a range of history that frames
\* are still coming of is awaited or was abandoned.
Debts ==
  /\ \A q \in Position(sent) : sent[q] = "write" => q \in abandoned
  /\ \A id \in Ranges : id \in abandoned \/ (pc = "records" /\ id = own)

\* The results of the running attempt: one per name, of requests that follow
\* each other, each passed by the line.
Concluded(r) ==
  /\ r.own <= Len(sent) /\ sent[r.own] = r.name /\ r.from <= r.own
  /\ r.status = "ok" => r.from > 0 /\ sent[r.from] = r.name
  /\ r.status = "empty" => r.from > 0 /\ sent[r.from] = "write"
  /\ \A id \in Coming : r.from < id

Consecutive ==
  \A k \in Position(results) :
    k + 1 \in Position(results) => results[k + 1].own = results[k].own + 1

Increasing ==
  \A l, k \in Position(results) :
    l < k /\ results[k].from > 0 => results[l].from < results[k].from

LastResult ==
  Len(results) > 0 =>
    /\ pc \in {"send", "decide", "history"} => results[Len(results)].own = Len(sent)
    /\ pc \in {"await", "records"} => results[Len(results)].own = Len(sent) - 1

Series ==
  /\ \A k \in Position(results) : Concluded(results[k]) /\ results[k].name = call.names[k]
  /\ Consecutive /\ Increasing /\ LastResult
  /\ pc \in {"history", "records"} => StatusIn({"ok", "empty"})

Named(name, s) == {i \in s : sent[i] = name}

\* Of no name are more requests still to be answered than were abandoned, but
\* for the one that is awaited.
Allowed(name) ==
  Cardinality(Named(name, abandoned)) + (IF pc = "await" /\ Current = name THEN 1 ELSE 0)

Lag ==
  \A name \in Name : \A id \in Coming :
    Cardinality(Named(name, id .. Len(sent))) <= Allowed(name)

\* The records of the awaited range, when nothing of an older one is coming.
Trusted == Fresh \/ Cardinality(abandoned) <= 1

Clean ==
  /\ Ranges \subseteq {own}
  /\ \A i \in Position(records) : records[i].id = own /\ records[i].node = Identity

\* Behind the first b frames, the frames of the awaited range are numbered on
\* from what has been collected.
NumberedFrom(b) ==
  /\ \A i \in 1 .. b : rep[i].id < own
  /\ \A i \in b + 1 .. Len(rep) : rep[i].id = own /\ rep[i].n = Len(records) + (i - b - 1)
  /\ \A k \in Position(req) : req[k].id = own => req[k].n = Len(records) + (Len(rep) - b)

Collected ==
  pc = "records" /\ Trusted =>
    Clean /\ (lost \/ \E b \in 0 .. Len(rep) : NumberedFrom(b))

Snapped == outcome = "snapshot" => /\ call.kind = "backup" /\ Len(results) = Len(call.names)
                                   /\ Snapshot

USE SessionAssumption DEF SessionAssumption

-----------------------------------------------------------------------------
(* Constants and sequences. *)

LEMMA JustHealth ==
  /\ <<"health">> \in Seq({"health"}) /\ <<"health">> # << >>
  /\ Len(<<"health">>) = 1 /\ <<"health">>[1] = "health"
<1>1. <<"health">> = Append(<< >>, "health")
  OBVIOUS
<1>2. Append(<< >>, "health") \in Seq({"health"})
  <2>1. << >> \in Seq({"health"}) /\ "health" \in {"health"}
    OBVIOUS
  <2> QED
    BY <2>1, AppendProperties
<1>3. <<"health">> # << >> /\ Len(<<"health">>) = 1 /\ <<"health">>[1] = "health"
  OBVIOUS
<1> QED
  BY <1>1, <1>2, <1>3

\* Names are strings of their own, and every call asks for some.
LEMMA CallFacts ==
  \A c \in Call :
    /\ c.names \in Seq(Name) /\ Len(c.names) > 0
    /\ c.kind = "history" => Len(c.names) = 1 /\ c.names[1] = "health"
    /\ c.kind = "backup" => c.names = BackupNames
<1> SUFFICES ASSUME NEW c \in Call
             PROVE  /\ c.names \in Seq(Name) /\ Len(c.names) > 0
                    /\ c.kind = "history" => Len(c.names) = 1 /\ c.names[1] = "health"
                    /\ c.kind = "backup" => c.names = BackupNames
  OBVIOUS
<1>1. \E S : c.names \in Seq(S) /\ c.names # << >>
  <2>1. CASE c \in [kind : {"read"}, names : Selections]
    BY <2>1
  <2>2. CASE c \in [kind : {"backup"}, names : {BackupNames}]
    BY <2>2
  <2>3. CASE c \in [kind : {"history"}, names : {<<"health">>}]
    <3>1. c.names = <<"health">>
      BY <2>3
    <3> QED
      BY <3>1, JustHealth
  <2> QED
    BY <2>1, <2>2, <2>3 DEF Call
<1>2. \A i \in 1 .. Len(c.names) : c.names[i] \in Name
  BY DEF Name
<1>3. c.names \in Seq(Name) /\ Len(c.names) > 0
  <2>1. PICK S : c.names \in Seq(S) /\ c.names # << >>
    BY <1>1
  <2>2. /\ Len(c.names) \in Nat \ {0} /\ c.names \in [1 .. Len(c.names) -> S]
    BY <2>1, EmptySeq, LenProperties
  <2> QED
    BY <1>2, <2>2
<1>4. c.kind = "history" => Len(c.names) = 1 /\ c.names[1] = "health"
  <2>1. c.kind = "history" => c.names = <<"health">>
    BY DEF Call
  <2> QED
    BY <2>1, JustHealth
<1>5. c.kind = "backup" => c.names = BackupNames
  BY DEF Call
<1> QED
  BY <1>3, <1>4, <1>5

LEMMA NameFacts ==
  /\ "health" \in Name
  /\ \A w \in {"ok", "end", "error", "record", "history", "write"} : w \notin Name
BY DEF Name, Response

\* The line without its first n frames.
Dropped(n) ==
  /\ rep' \in Seq(Frame) /\ Len(rep') = Len(rep) - n
  /\ \A i \in 1 .. Len(rep) - n : rep'[i] = rep[i + n]

LEMMA Drops ==
  ASSUME rep \in Seq(Frame)
  PROVE  /\ rep' = rep => Dropped(0)
         /\ rep # << >> /\ rep' = Tail(rep) => Len(rep) > 0 /\ Dropped(1)
         /\ \A n \in 0 .. Len(rep) : rep' = SubSeq(rep, n + 1, Len(rep)) => Dropped(n)
<1>1. rep' = rep => Dropped(0)
  BY DEF Dropped
<1>2. rep # << >> /\ rep' = Tail(rep) => Len(rep) > 0 /\ Dropped(1)
  BY HeadTailProperties, EmptySeq DEF Dropped
<1>3. ASSUME NEW n \in 0 .. Len(rep), rep' = SubSeq(rep, n + 1, Len(rep)) PROVE Dropped(n)
  <2>1. /\ rep' \in Seq(Frame) /\ Len(rep') = Len(rep) - n
        /\ \A i \in 1 .. Len(rep) - n : rep'[i] = rep[n + 1 + i - 1]
    BY <1>3, SubSeqProperties
  <2>2. \A i \in 1 .. Len(rep) - n : n + 1 + i - 1 = i + n
    OBVIOUS
  <2> QED
    BY <2>1, <2>2 DEF Dropped
<1> QED
  BY <1>1, <1>2, <1>3

-----------------------------------------------------------------------------
(* Types. *)

Request == [kind : Name \cup {"history", "write"}, id : 1 .. MaxRequests, n : 0 .. MaxHeld]

Typed == TypeOK /\ Stages

\* The types of the elements, for arithmetic.
LEMMA Elements ==
  ASSUME TypeOK
  PROVE  /\ \A f \in Frame : f.id \in Nat /\ f.id > 0 /\ f.n \in Nat /\ f.node \in Node
         /\ \A m \in Request : m.id \in Nat /\ m.id > 0 /\ m.n \in Nat
         /\ \A i \in Position(rep) : rep[i] \in Frame /\ i \in Nat
         /\ \A k \in Position(req) : req[k] \in Request /\ k \in Nat
         /\ \A k \in Position(results) : results[k] \in Result /\ k \in Nat
         /\ \A k \in Position(records) : records[k] \in Frame
         /\ \A q \in Position(sent) : sent[q] \in Name \cup {"history", "write"} /\ q \in Nat
         /\ Len(rep) \in Nat /\ Len(req) \in Nat /\ Len(sent) \in Nat /\ own \in Nat
         /\ Len(results) \in Nat /\ Len(records) \in Nat
         /\ rep # << >> => Len(rep) > 0 /\ Head(rep) = rep[1]
         /\ req # << >> => Len(req) > 0 /\ Head(req) = req[1]
<1>1. \A f \in Frame : f.id \in Nat /\ f.id > 0 /\ f.n \in Nat /\ f.node \in Node
  BY DEF Frame
<1>2. \A m \in Request : m.id \in Nat /\ m.id > 0 /\ m.n \in Nat
  BY DEF Request
<1>3. /\ rep \in Seq(Frame) /\ req \in Seq(Request) /\ results \in Seq(Result)
      /\ records \in Seq(Frame) /\ sent \in Seq(Name \cup {"history", "write"})
  BY DEF TypeOK, Request
<1>4. /\ Len(rep) \in Nat /\ Len(req) \in Nat /\ Len(sent) \in Nat
      /\ Len(results) \in Nat /\ Len(records) \in Nat
  BY <1>3, LenProperties
<1>5. own \in Nat
  BY <1>4 DEF TypeOK
<1>6. /\ \A i \in Position(rep) : rep[i] \in Frame /\ i \in Nat
      /\ \A k \in Position(req) : req[k] \in Request /\ k \in Nat
      /\ \A k \in Position(results) : results[k] \in Result /\ k \in Nat
      /\ \A k \in Position(records) : records[k] \in Frame
      /\ \A q \in Position(sent) : sent[q] \in Name \cup {"history", "write"} /\ q \in Nat
  BY <1>3, <1>4, LenProperties DEF Position
<1>7. /\ rep # << >> => Len(rep) > 0 /\ Head(rep) = rep[1]
      /\ req # << >> => Len(req) > 0 /\ Head(req) = req[1]
  BY <1>3, EmptySeq
<1> QED
  BY <1>1, <1>2, <1>4, <1>5, <1>6, <1>7

LEMMA ResultTypes ==
  \A r \in Result : /\ r.own \in Nat /\ r.own > 0 /\ r.from \in Nat /\ r.name \in Name
                    /\ r.status \in {"ok", "empty", "failed"}
BY DEF Result

\* A sequence with one element more at its end.
Longer(s, t, e) ==
  /\ Len(t) = Len(s) + 1 /\ Len(s) \in Nat
  /\ \A i \in 1 .. Len(s) : t[i] = s[i]
  /\ t[Len(s) + 1] = e

LEMMA Appended ==
  ASSUME NEW S, NEW s \in Seq(S), NEW e \in S
  PROVE  Append(s, e) \in Seq(S) /\ Longer(s, Append(s, e), e)
BY AppendProperties, LenProperties DEF Longer

Sends(kind) ==
  /\ Len(sent) < MaxRequests
  /\ Longer(sent, sent', kind)
  /\ Longer(req, req', [kind |-> kind, id |-> Len(sent) + 1, n |-> 0])

LEMMA SendEffect ==
  ASSUME TypeOK, NEW kind \in Name \cup {"history", "write"}, Send(kind)
  PROVE  /\ Sends(kind) /\ Len(sent') = Len(sent) + 1
         /\ sent' \in Seq(Name \cup {"history", "write"}) /\ Len(sent') <= MaxRequests
         /\ req' \in Seq(Request)
<1>1. sent' = Append(sent, kind) /\ sent \in Seq(Name \cup {"history", "write"})
  BY DEF Send, TypeOK
<1>2. Longer(sent, sent', kind) /\ sent' \in Seq(Name \cup {"history", "write"})
  BY <1>1, Appended
<1>3. Len(sent') = Len(sent) + 1 /\ Len(sent) \in Nat /\ Len(sent) < MaxRequests
  BY <1>2 DEF Longer, Send
<1> DEFINE m == [kind |-> kind, id |-> Len(sent) + 1, n |-> 0]
<1>4. m \in Request /\ req \in Seq(Request) /\ req' = Append(req, m)
  BY <1>3 DEF Request, Send, TypeOK
<1> HIDE DEF m
<1>5. Longer(req, req', m) /\ req' \in Seq(Request)
  BY <1>4, Appended
<1> QED
  BY <1>2, <1>3, <1>5 DEF Sends, m

\* What the node puts on the line.
Emits(kind, m) ==
  Longer(rep, rep', [kind |-> kind, id |-> m.id, n |-> m.n, node |-> node])

LEMMA EmitEffect ==
  ASSUME TypeOK, NEW kind \in Name \cup Response \cup {"record"}, NEW m \in Request,
         Emit(kind, m)
  PROVE  Emits(kind, m) /\ rep' \in Seq(Frame)
<1> DEFINE f == [kind |-> kind, id |-> m.id, n |-> m.n, node |-> node]
<1>1. f \in Frame /\ rep \in Seq(Frame) /\ rep' = Append(rep, f)
  BY DEF Frame, Request, TypeOK, Emit
<1> HIDE DEF f
<1> QED
  BY <1>1, Appended DEF Emits, f

Shorter(s, t) ==
  /\ Len(s) \in Nat \ {0} /\ Len(t) = Len(s) - 1
  /\ \A i \in 1 .. Len(s) - 1 : t[i] = s[i + 1]

LEMMA Rest ==
  ASSUME NEW S, NEW s \in Seq(S), s # << >>
  PROVE  Tail(s) \in Seq(S) /\ Shorter(s, Tail(s)) /\ Head(s) = s[1] /\ s[1] \in S
BY HeadTailProperties, EmptySeq, LenProperties DEF Shorter

\* The steps of the node.
Answered(kind) ==
  /\ req # << >> /\ Emits(kind, req[1]) /\ Shorter(req, req')
  /\ \/ kind \in Name /\ req[1].kind = kind
     \/ kind = "ok" /\ req[1].kind = "write"
     \/ kind = "end" /\ req[1].kind = "history"
     \/ kind = "error"

Recorded ==
  /\ req # << >> /\ Emits("record", req[1]) /\ req[1].kind = "history" /\ req[1].n < MaxHeld
  /\ Len(req') = Len(req)
  /\ req'[1] = [kind |-> "history", id |-> req[1].id, n |-> req[1].n + 1]
  /\ \A k \in 2 .. Len(req) : req'[k] = req[k]

LEMMA ServeEffect ==
  ASSUME TypeOK, Serve
  PROVE  /\ \E kind \in Name \cup Response : Answered(kind)
         /\ rep' \in Seq(Frame) /\ req' \in Seq(Request)
<1>1. req # << >> /\ req \in Seq(Request) /\ req' = Tail(req)
  BY DEF Serve, TypeOK, Request
<1>2. req' \in Seq(Request) /\ Shorter(req, req') /\ Head(req) = req[1] /\ req[1] \in Request
  BY <1>1, Rest
<1>3. PICK kind \in Name \cup Response :
        /\ Emit(kind, req[1])
        /\ \/ kind \in Name /\ req[1].kind = kind
           \/ kind = "ok" /\ req[1].kind = "write"
           \/ kind = "end" /\ req[1].kind = "history"
           \/ kind = "error"
  BY <1>2 DEF Serve, Response
<1>4. Emits(kind, req[1]) /\ rep' \in Seq(Frame)
  BY <1>2, <1>3, EmitEffect
<1> QED
  BY <1>1, <1>2, <1>3, <1>4 DEF Answered

LEMMA RecordEffect ==
  ASSUME TypeOK, SendRecord
  PROVE  Recorded /\ rep' \in Seq(Frame) /\ req' \in Seq(Request)
<1>1. req # << >> /\ req \in Seq(Request)
  BY DEF SendRecord, TypeOK, Request
<1>2. Head(req) = req[1] /\ req[1] \in Request /\ Len(req) \in Nat \ {0} /\ 1 \in 1 .. Len(req)
  BY <1>1, Rest DEF Shorter
<1> DEFINE m == [kind |-> "history", id |-> req[1].id, n |-> req[1].n + 1]
<1>3. /\ Emit("record", req[1]) /\ req[1].kind = "history" /\ req[1].n < MaxHeld
      /\ req' = [req EXCEPT ![1] = m]
  BY <1>2 DEF SendRecord
<1>4. m \in Request
  BY <1>2, <1>3 DEF Request
<1> HIDE DEF m
<1>5. /\ req' \in Seq(Request) /\ Len(req') = Len(req)
      /\ \A j \in 1 .. Len(req) : req'[j] = IF j = 1 THEN m ELSE req[j]
  BY <1>1, <1>2, <1>3, <1>4, ExceptSeq
<1>6. Emits("record", req[1]) /\ rep' \in Seq(Frame)
  BY <1>2, <1>3, EmitEffect
<1> QED
  BY <1>1, <1>2, <1>3, <1>5, <1>6 DEF Recorded, m

LEMMA NodeTyped == Typed /\ NodeStep => Typed'
<1> SUFFICES ASSUME Typed, NodeStep PROVE Typed'
  OBVIOUS
<1>0. TypeOK /\ Stages /\ rep \in Seq(Frame)
  BY DEF Typed, TypeOK
<1>1. UNCHANGED <<call, pc, attempt, results, own, records, outcome, sent, abandoned, closed>>
  BY DEF NodeStep
<1>2. rep' \in Seq(Frame) /\ req' \in Seq(Request) /\ node' \in Node /\ lost' \in BOOLEAN
  <2>1. CASE Serve
    BY <1>0, <2>1, ServeEffect DEF Serve, TypeOK
  <2>2. CASE SendRecord
    BY <1>0, <2>2, RecordEffect DEF SendRecord, TypeOK
  <2>3. CASE Lose
    BY <1>0, <2>3, Rest DEF Lose, TypeOK, Request
  <2>4. CASE Swap
    BY <1>0, <2>4 DEF Swap, TypeOK, Node
  <2> QED
    BY <2>1, <2>2, <2>3, <2>4 DEF NodeStep
<1>3. TypeOK'
  BY <1>0, <1>1, <1>2 DEF TypeOK, Request
<1>4. Stages'
  BY <1>0, <1>1 DEF Stages, Current, Awaiting
<1> QED
  BY <1>3, <1>4 DEF Typed

LEMMA WriteTyped == Typed /\ AbandonedWrite => Typed'
<1> SUFFICES ASSUME Typed, AbandonedWrite PROVE Typed'
  OBVIOUS
<1>0. TypeOK /\ Stages /\ pc = "idle" /\ Len(sent) \in Nat
  BY Elements DEF Typed, AbandonedWrite
<1>1. /\ Len(sent') = Len(sent) + 1
      /\ sent' \in Seq(Name \cup {"history", "write"}) /\ Len(sent') <= MaxRequests
      /\ req' \in Seq(Request)
  BY <1>0, SendEffect DEF AbandonedWrite
<1>2. /\ abandoned' = abandoned \cup {Len(sent')}
      /\ UNCHANGED <<node, rep, call, pc, attempt, results, own, records, outcome, lost, closed>>
  BY DEF AbandonedWrite
<1>3. own' \in 0 .. Len(sent') /\ abandoned' \subseteq 1 .. Len(sent')
  <2>1. \A l \in Nat : 0 .. l \subseteq 0 .. l + 1 /\ 1 .. l \subseteq 1 .. l + 1 /\ l + 1 \in 1 .. l + 1
    OBVIOUS
  <2>2. own \in 0 .. Len(sent) /\ abandoned \subseteq 1 .. Len(sent)
    BY <1>0 DEF TypeOK
  <2> QED
    BY <1>0, <1>1, <1>2, <2>1, <2>2
<1>4. TypeOK'
  BY <1>0, <1>1, <1>2, <1>3 DEF TypeOK, Request
<1>5. Stages'
  BY <1>0, <1>2 DEF Stages, Awaiting
<1> QED
  BY <1>4, <1>5 DEF Typed

LEMMA BeginTyped == Typed /\ Begin => Typed'
<1> SUFFICES ASSUME Typed, Begin PROVE Typed'
  OBVIOUS
<1>0. TypeOK /\ Len(sent) \in Nat
  BY Elements DEF Typed
<1>1. /\ call' \in Call /\ pc' = "open" /\ attempt' = 0 /\ outcome' = "none"
      /\ results' = << >> /\ records' = << >> /\ own' = 0 /\ lost' = FALSE /\ closed' = None
      /\ UNCHANGED <<node, req, rep, sent, abandoned>>
  BY DEF Begin, line
<1>2. /\ Len(results') <= Len(call'.names) /\ Len(records') <= MaxRecords
      /\ results' \in Seq(Result) /\ records' \in Seq(Frame)
  <2>1. Len(results') = 0 /\ Len(records') = 0 /\ Len(call'.names) \in Nat
    BY <1>1, CallFacts
  <2>2. results' \in Seq(Result) /\ records' \in Seq(Frame)
    BY <1>1, EmptySeq
  <2> QED
    BY <2>1, <2>2
<1>3. attempt' \in 0 .. Retries /\ own' \in 0 .. Len(sent')
  BY <1>0, <1>1
<1>4. TypeOK'
  BY <1>0, <1>1, <1>2, <1>3 DEF TypeOK
<1>5. Stages'
  BY <1>1 DEF Stages, Awaiting
<1> QED
  BY <1>4, <1>5 DEF Typed

\* What is common to the steps that drop frames and send nothing.
Quiet == /\ \E n \in 0 .. Len(rep) : Dropped(n)
         /\ UNCHANGED <<node, req, sent>>

LEMMA QuietSteps ==
  ASSUME TypeOK,
         \/ Open \/ Disconnect \/ Raise \/ TakeAnswer \/ TakeResponse \/ SkipFrame
         \/ QueryTimeout \/ Decide \/ TakeRecord \/ SkipOther \/ Complete \/ OtherResponse
         \/ Limit \/ OtherNode \/ HistoryTimeout
  PROVE  Quiet
<1>0. rep \in Seq(Frame) /\ Len(rep) \in Nat
  BY LenProperties DEF TypeOK
<1>1. UNCHANGED <<node, req, sent>>
  BY DEF Open, Disconnect, Raise, TakeAnswer, TakeResponse, SkipFrame, QueryTimeout, Decide,
         TakeRecord, SkipOther, Complete, OtherResponse, Limit, OtherNode, HistoryTimeout,
         Conclude, Stops, line, ghosts
<1>2. CASE Disconnect \/ Raise \/ QueryTimeout \/ Decide \/ HistoryTimeout
  <2>1. rep' = rep
    BY <1>2 DEF Disconnect, Raise, QueryTimeout, Decide, HistoryTimeout, line
  <2> QED
    BY <1>0, <1>1, <2>1, Drops DEF Quiet
<1>3. CASE SkipFrame \/ TakeRecord \/ SkipOther
  <2>1. rep # << >> /\ rep' = Tail(rep)
    BY <1>3 DEF SkipFrame, TakeRecord, SkipOther, Receives, Arrives
  <2>2. Dropped(1) /\ 1 \in 0 .. Len(rep)
    BY <1>0, <2>1, Drops
  <2> QED
    BY <1>1, <2>2 DEF Quiet
<1>4. CASE Open \/ TakeAnswer \/ TakeResponse \/ Complete \/ OtherResponse \/ Limit \/ OtherNode
  <2>1. \E n \in 0 .. Len(rep) : rep' = SubSeq(rep, n + 1, Len(rep))
    BY <1>0, <1>4 DEF Open, TakeAnswer, TakeResponse, Complete, OtherResponse, Limit,
       OtherNode, Consumed
  <2> QED
    BY <1>0, <1>1, <2>1, Drops DEF Quiet
<1> QED
  BY <1>2, <1>3, <1>4

\* What the type invariant says of the host, apart from the line.
HostTypes ==
  /\ call \in Call
  /\ pc \in {"idle", "open", "send", "await", "decide", "history", "records"}
  /\ attempt \in 0 .. Retries
  /\ results \in Seq(Result) /\ Len(results) <= Len(call.names)
  /\ records \in Seq(Frame) /\ Len(records) <= MaxRecords
  /\ outcome \in {"none", "returned", "snapshot", "raised", "complete",
                  "device_error", "identity_error", "limit_error", "timeout"}
  /\ lost \in BOOLEAN
  /\ closed \in Frame \cup {None}

LEMMA QuietTypes ==
  ASSUME TypeOK, Quiet, HostTypes', own' = own, abandoned' \subseteq abandoned \cup {own},
         abandoned' # abandoned => own > 0
  PROVE  TypeOK'
<1>1. rep' \in Seq(Frame) /\ UNCHANGED <<node, req, sent>>
  BY DEF Quiet, Dropped
<1>2. own' \in 0 .. Len(sent') /\ abandoned' \subseteq 1 .. Len(sent')
  BY <1>1, Elements DEF TypeOK
<1> QED
  BY <1>1, <1>2 DEF TypeOK, HostTypes

\* A transaction that ends keeps what it has, or nothing.
LEMMA EndTypes ==
  ASSUME TypeOK, Stages, NEW o \in {"returned", "snapshot", "raised", "complete",
                  "device_error", "identity_error", "limit_error", "timeout"}, Ends(o),
         lost' = lost, closed' \in Frame \cup {None}
  PROVE  HostTypes' /\ Stages' /\ own' = own
<1>1. /\ pc' = "idle" /\ outcome' = o /\ UNCHANGED <<call, attempt, own>>
      /\ \/ UNCHANGED <<results, records>>
         \/ results' = << >> /\ records' = << >>
  BY DEF Ends
<1>2. /\ results' \in Seq(Result) /\ Len(results') <= Len(call.names)
      /\ records' \in Seq(Frame) /\ Len(records') <= MaxRecords
  <2>1. CASE UNCHANGED <<results, records>>
    BY <2>1 DEF TypeOK
  <2>2. CASE results' = << >> /\ records' = << >>
    <3>1. Len(results') = 0 /\ Len(records') = 0 /\ Len(call.names) \in Nat
      BY <2>2, CallFacts DEF TypeOK
    <3>2. results' \in Seq(Result) /\ records' \in Seq(Frame)
      BY <2>2, EmptySeq
    <3> QED
      BY <3>1, <3>2
  <2> QED
    BY <1>1, <2>1, <2>2
<1>3. HostTypes'
  BY <1>1, <1>2 DEF HostTypes, TypeOK
<1>4. Stages'
  BY <1>1 DEF Stages, Awaiting
<1> QED
  BY <1>1, <1>3, <1>4

LEMMA OpenTyped == Typed /\ Open => Typed'
<1> SUFFICES ASSUME Typed, Open PROVE Typed'
  OBVIOUS
<1>0. TypeOK /\ Stages /\ Quiet
  BY QuietSteps DEF Typed
<1>1. /\ results' = << >> /\ records' = << >> /\ pc' = "send" /\ pc = "open"
      /\ UNCHANGED <<call, attempt, own, outcome, abandoned, lost, closed>>
  BY DEF Open, ghosts
<1>2. Len(results') = 0 /\ Len(records') = 0 /\ Len(call.names) \in Nat /\ Len(call.names) > 0
  BY <1>0, <1>1, CallFacts DEF TypeOK
<1>3. results' \in Seq(Result) /\ records' \in Seq(Frame)
  BY <1>1, EmptySeq
<1>4. HostTypes'
  BY <1>0, <1>1, <1>2, <1>3 DEF HostTypes, TypeOK
<1>5. Stages'
  BY <1>0, <1>1, <1>2 DEF Stages, Awaiting
<1> QED
  BY <1>0, <1>1, <1>4, <1>5, QuietTypes DEF Typed

LEMMA ErrorTyped == Typed /\ (Disconnect \/ Raise) => Typed'
<1> SUFFICES ASSUME Typed, Disconnect \/ Raise PROVE Typed'
  OBVIOUS
<1>0. TypeOK /\ Stages /\ Quiet
  BY QuietSteps DEF Typed
<1>1. /\ UNCHANGED <<lost, closed>>
      /\ abandoned' = IF Awaiting THEN abandoned \cup {own} ELSE abandoned
      /\ closed' \in Frame \cup {None}
  BY <1>0 DEF Disconnect, Raise, TypeOK
<1>2. HostTypes' /\ Stages' /\ own' = own
  <2>1. CASE Ends("raised")
    BY <1>0, <1>1, <2>1, EndTypes
  <2>2. CASE ~ Ends("raised")
    <3>1. /\ attempt' = attempt + 1 /\ pc' = "open" /\ attempt < Retries
          /\ UNCHANGED <<call, own, outcome, results, records>>
          /\ outcome = "none"
      BY <1>0, <2>2 DEF Disconnect, Raise, Stages
    <3>2. attempt' \in 0 .. Retries
      BY <1>0, <3>1 DEF TypeOK
    <3> QED
      BY <1>0, <1>1, <3>1, <3>2 DEF HostTypes, TypeOK, Stages, Awaiting
  <2> QED
    BY <2>1, <2>2
<1>3. abandoned' \subseteq abandoned \cup {own} /\ (abandoned' # abandoned => own > 0)
  BY <1>0, <1>1 DEF Stages
<1> QED
  BY <1>0, <1>2, <1>3, QuietTypes DEF Typed

LEMMA CurrentIsName ==
  ASSUME Typed, pc \in {"send", "await"}
  PROVE  /\ Current \in Name /\ Len(results) + 1 \in Position(call.names)
         /\ Len(results) \in Nat /\ Len(call.names) \in Nat
<1>1. /\ call.names \in Seq(Name) /\ Len(results) \in Nat /\ Len(call.names) \in Nat
      /\ Len(results) < Len(call.names)
  BY CallFacts, Elements DEF Typed, TypeOK, Stages
<1>2. Len(results) + 1 \in 1 .. Len(call.names)
  BY <1>1
<1> QED
  BY <1>1, <1>2 DEF Current, Position

\* A request of a transaction that was sent is the last one and is awaited.
LEMMA SentTypes ==
  ASSUME Typed, NEW kind \in Name \cup {"history"}, Send(kind), own' = Len(sent'),
         pc' \in {"await", "records"}, HostTypes',
         UNCHANGED <<node, rep, call, results, outcome, abandoned>>,
         outcome = "none",
         pc' = "await" => Len(results) < Len(call.names) /\ kind = Current,
         pc' = "records" => /\ Len(results) = Len(call.names) /\ call.kind = "history"
                            /\ kind = "history"
  PROVE  Typed'
<1>0. TypeOK /\ Stages /\ Len(sent) \in Nat
  BY Elements DEF Typed
<1>1. /\ Sends(kind) /\ Len(sent') = Len(sent) + 1
      /\ sent' \in Seq(Name \cup {"history", "write"}) /\ Len(sent') <= MaxRequests
      /\ req' \in Seq(Request)
  BY <1>0, SendEffect
<1>2. /\ own' \in 0 .. Len(sent') /\ own' > 0 /\ own' \notin abandoned
      /\ abandoned \subseteq 1 .. Len(sent')
  <2>1. \A l \in Nat : /\ 1 .. l \subseteq 1 .. l + 1 /\ l + 1 \in 0 .. l + 1
                       /\ l + 1 > 0 /\ l + 1 \notin 1 .. l
    OBVIOUS
  <2>2. abandoned \subseteq 1 .. Len(sent)
    BY <1>0 DEF TypeOK
  <2> QED
    BY <1>0, <1>1, <2>1, <2>2
<1>3. TypeOK'
  BY <1>0, <1>1, <1>2 DEF TypeOK, HostTypes, Request
<1>4. sent'[own'] = kind
  BY <1>1 DEF Sends, Longer
<1>5. Stages'
  BY <1>2, <1>4 DEF Stages, Awaiting, Current
<1> QED
  BY <1>3, <1>5 DEF Typed

LEMMA SendTyped == Typed /\ (SendQuery \/ SendHistory) => Typed'
<1> SUFFICES ASSUME Typed, SendQuery \/ SendHistory PROVE Typed'
  OBVIOUS
<1>0. TypeOK /\ Stages
  BY DEF Typed
<1>1. UNCHANGED <<node, rep, call, attempt, results, records, outcome, abandoned, closed>>
  BY DEF SendQuery, SendHistory
<1>2. lost' \in BOOLEAN
  BY <1>0 DEF SendQuery, SendHistory, TypeOK
<1>3. outcome = "none"
  BY <1>0 DEF Stages, SendQuery, SendHistory
<1>4. CASE SendQuery
  <2>1. Send(Current) /\ own' = Len(sent') /\ pc' = "await" /\ Len(results) < Len(call.names)
    BY <1>0, <1>4 DEF SendQuery, Stages
  <2>2. Current \in Name
    BY <1>4, CurrentIsName DEF SendQuery
  <2>3. HostTypes'
    BY <1>0, <1>1, <1>2, <2>1 DEF HostTypes, TypeOK
  <2> QED
    BY <1>1, <1>3, <2>1, <2>2, <2>3, SentTypes
<1>5. CASE SendHistory
  <2>1. /\ Send("history") /\ own' = Len(sent') /\ pc' = "records"
        /\ Len(results) = Len(call.names) /\ call.kind = "history"
    BY <1>0, <1>5 DEF SendHistory, Stages
  <2>2. HostTypes'
    BY <1>0, <1>1, <1>2, <2>1 DEF HostTypes, TypeOK
  <2> QED
    BY <1>1, <1>3, <2>1, <2>2, SentTypes
<1> QED
  BY <1>4, <1>5

\* A query that ends adds its result to the series.
Concludes(status, from) ==
  /\ \E x \in Node :
       LET r == [name |-> Current, own |-> own, from |-> from, status |-> status, node |-> x] IN
       r \in Result /\ Longer(results, results', r)
  /\ results' \in Seq(Result) /\ Len(results') = Len(results) + 1
  /\ pc' = IF Len(results') = Len(call.names) THEN "decide" ELSE "send"
  /\ UNCHANGED <<node, req, call, attempt, own, records, outcome, sent, lost, closed>>

LEMMA ConcludeEffect ==
  ASSUME Typed, pc = "await", NEW status \in {"ok", "empty", "failed"}, NEW from \in Nat,
         Conclude(status, from),
         from = 0 \/ (rep # << >> /\ from = Head(rep).id)
  PROVE  Concludes(status, from)
<1>0. TypeOK /\ Stages
  BY DEF Typed
<1>1. Current \in Name
  BY CurrentIsName
<1>2. own \in 1 .. MaxRequests
  <2>1. own \in Nat /\ own > 0 /\ own = Len(sent) /\ Len(sent) <= MaxRequests
    BY <1>0, Elements DEF Stages, Awaiting, TypeOK
  <2> QED
    BY <2>1
<1>3. from \in 0 .. MaxRequests
      /\ (IF from = 0 THEN node ELSE Head(rep).node) \in Node
  <2>1. CASE from = 0
    BY <1>0, <2>1 DEF TypeOK
  <2>2. CASE from # 0
    <3>1. Head(rep) \in Frame
      BY <1>0, <2>2, Rest DEF TypeOK
    <3> QED
      BY <2>2, <3>1 DEF Frame
  <2> QED
    BY <2>1, <2>2
<1> DEFINE x == IF from = 0 THEN node ELSE Head(rep).node
<1>4. PICK y \in Node : y = x
  BY <1>3
<1> DEFINE r == [name |-> Current, own |-> own, from |-> from, status |-> status, node |-> y]
<1>5. r \in Result
  BY <1>1, <1>2, <1>3, <1>4 DEF Result
<1>6. results' = Append(results, r) /\ results \in Seq(Result)
  BY <1>0, <1>4 DEF Conclude, TypeOK
<1>7. Longer(results, results', r) /\ results' \in Seq(Result) /\ Len(results') = Len(results) + 1
  <2> HIDE DEF r
  <2> QED
    BY <1>5, <1>6, Appended DEF Longer
<1>8. /\ pc' = IF Len(results') = Len(call.names) THEN "decide" ELSE "send"
      /\ UNCHANGED <<node, req, call, attempt, own, records, outcome, sent, lost, closed>>
  BY DEF Conclude
<1> QED
  BY <1>5, <1>7, <1>8 DEF Concludes

\* How each step that takes or misses an answer concludes.
LEMMA TakenAnswers ==
  ASSUME Typed
  PROVE  /\ TakeAnswer => /\ pc = "await" /\ rep # << >> /\ rep[1].kind = Current
                          /\ abandoned' = abandoned
                          /\ \E s \in {"ok", "failed"} : Concludes(s, rep[1].id)
                          /\ \E n \in 1 .. Len(rep) : Dropped(n)
         /\ TakeResponse => /\ pc = "await" /\ rep # << >> /\ rep[1].kind \in Response
                            /\ Forsake(rep[1].id)
                            /\ \/ rep[1].kind = "ok" /\ Concludes("empty", rep[1].id)
                               \/ Concludes("failed", rep[1].id)
                            /\ \E n \in 1 .. Len(rep) : Dropped(n)
         /\ QueryTimeout => /\ pc = "await" /\ Forsake(0) /\ Concludes("failed", 0)
                            /\ Dropped(0)
<1>0. TypeOK /\ rep \in Seq(Frame) /\ Len(rep) \in Nat
  BY LenProperties DEF Typed, TypeOK
<1>1. rep # << >> => Head(rep) = rep[1] /\ rep[1].id \in Nat
  <2>1. rep # << >> => Head(rep) = rep[1] /\ rep[1] \in Frame
    BY <1>0, Rest
  <2> QED
    BY <1>0, <2>1, Elements
<1>2. Consumed => \E n \in 1 .. Len(rep) : Dropped(n)
  BY <1>0, Drops DEF Consumed
<1>3. ASSUME TakeAnswer
      PROVE  /\ pc = "await" /\ rep # << >> /\ rep[1].kind = Current /\ abandoned' = abandoned
             /\ \E s \in {"ok", "failed"} : Concludes(s, rep[1].id)
             /\ \E n \in 1 .. Len(rep) : Dropped(n)
  <2>1. /\ pc = "await" /\ rep # << >> /\ rep[1].kind = Current /\ Consumed
        /\ abandoned' = abandoned
    BY <1>1, <1>3 DEF TakeAnswer, Arrives
  <2>2. PICK s \in {"ok", "failed"} : Conclude(s, rep[1].id)
    BY <1>1, <1>3, <2>1 DEF TakeAnswer
  <2>3. Concludes(s, rep[1].id)
    BY <1>1, <2>1, <2>2, ConcludeEffect
  <2> QED
    BY <1>2, <2>1, <2>3
<1>4. ASSUME TakeResponse
      PROVE  /\ pc = "await" /\ rep # << >> /\ rep[1].kind \in Response /\ Forsake(rep[1].id)
             /\ \/ rep[1].kind = "ok" /\ Concludes("empty", rep[1].id)
                \/ Concludes("failed", rep[1].id)
             /\ \E n \in 1 .. Len(rep) : Dropped(n)
  <2>1. /\ pc = "await" /\ rep # << >> /\ rep[1].kind \in Response /\ Consumed
        /\ Forsake(rep[1].id)
    BY <1>1, <1>4 DEF TakeResponse, Arrives
  <2>2. \/ rep[1].kind = "ok" /\ Conclude("empty", rep[1].id)
        \/ Conclude("failed", rep[1].id)
    BY <1>1, <1>4, <2>1 DEF TakeResponse
  <2>3. \/ rep[1].kind = "ok" /\ Concludes("empty", rep[1].id)
        \/ Concludes("failed", rep[1].id)
    BY <1>1, <2>1, <2>2, ConcludeEffect
  <2> QED
    BY <1>2, <2>1, <2>3
<1>5. ASSUME QueryTimeout
      PROVE  pc = "await" /\ Forsake(0) /\ Concludes("failed", 0) /\ Dropped(0)
  <2>1. pc = "await" /\ Forsake(0) /\ Conclude("failed", 0) /\ rep' = rep
    BY <1>5 DEF QueryTimeout
  <2> QED
    BY <1>0, <2>1, ConcludeEffect, Drops
<1> QED
  BY <1>3, <1>4, <1>5

LEMMA AnswerTyped == Typed /\ (TakeAnswer \/ TakeResponse \/ QueryTimeout) => Typed'
<1> SUFFICES ASSUME Typed, TakeAnswer \/ TakeResponse \/ QueryTimeout PROVE Typed'
  OBVIOUS
<1>0. TypeOK /\ Stages /\ Quiet
  BY QuietSteps DEF Typed
<1>1. PICK status, from : Concludes(status, from)
  BY TakenAnswers
<1>2. /\ pc = "await" /\ own > 0
      /\ abandoned' \subseteq abandoned \cup {own}
  BY <1>0, TakenAnswers DEF Forsake, Stages, Awaiting
<1>3. Len(results') <= Len(call.names)
  <2>1. Len(results) \in Nat /\ Len(call.names) \in Nat /\ Len(results) < Len(call.names)
    BY <1>0, <1>2, Elements, CallFacts DEF TypeOK, Stages
  <2> QED
    BY <1>1, <2>1 DEF Concludes
<1>4. HostTypes'
  BY <1>0, <1>1, <1>3 DEF Concludes, HostTypes, TypeOK
<1>5. Stages'
  <2>1. Len(results') \in Nat /\ Len(call.names) \in Nat
    BY <1>0, <1>1, LenProperties, CallFacts DEF Concludes, TypeOK
  <2>2. pc' = "send" => Len(results') < Len(call.names)
    BY <1>1, <1>3, <2>1 DEF Concludes
  <2> QED
    BY <1>0, <1>1, <1>2, <2>2 DEF Concludes, Stages, Awaiting
<1> QED
  BY <1>0, <1>1, <1>2, <1>4, <1>5, QuietTypes DEF Typed, Concludes

LEMMA SkipTyped == Typed /\ (SkipFrame \/ SkipOther) => Typed'
<1> SUFFICES ASSUME Typed, SkipFrame \/ SkipOther PROVE Typed'
  OBVIOUS
<1>0. TypeOK /\ Stages /\ Quiet
  BY QuietSteps DEF Typed
<1>1. UNCHANGED <<call, pc, attempt, results, own, records, outcome, sent, abandoned, lost, closed>>
  BY DEF SkipFrame, SkipOther, ghosts
<1>2. HostTypes' /\ Stages'
  BY <1>0, <1>1 DEF HostTypes, TypeOK, Stages, Awaiting, Current
<1> QED
  BY <1>0, <1>1, <1>2, QuietTypes DEF Typed

LEMMA RecordTyped == Typed /\ TakeRecord => Typed'
<1> SUFFICES ASSUME Typed, TakeRecord PROVE Typed'
  OBVIOUS
<1>0. TypeOK /\ Stages /\ Quiet
  BY QuietSteps DEF Typed
<1>1. /\ rep # << >> /\ records' = Append(records, Head(rep)) /\ Len(records) < MaxRecords
      /\ UNCHANGED <<call, pc, attempt, results, own, outcome, sent, abandoned, lost, closed>>
  BY DEF TakeRecord, Receives, Arrives, ghosts
<1>2. records' \in Seq(Frame) /\ Len(records') <= MaxRecords
  <2>1. Head(rep) \in Frame /\ records \in Seq(Frame)
    BY <1>0, <1>1, Rest DEF TypeOK
  <2>2. records' \in Seq(Frame) /\ Len(records') = Len(records) + 1 /\ Len(records) \in Nat
    BY <1>1, <2>1, Appended DEF Longer
  <2> QED
    BY <1>1, <2>2
<1>3. HostTypes' /\ Stages'
  BY <1>0, <1>1, <1>2 DEF HostTypes, TypeOK, Stages, Awaiting, Current
<1> QED
  BY <1>0, <1>1, <1>3, QuietTypes DEF Typed

LEMMA DecideTyped == Typed /\ Decide => Typed'
<1> SUFFICES ASSUME Typed, Decide PROVE Typed'
  OBVIOUS
<1>0. TypeOK /\ Stages /\ Quiet
  BY QuietSteps DEF Typed
<1>1. UNCHANGED <<sent, abandoned, lost, closed>> /\ pc = "decide" /\ closed \in Frame \cup {None}
  BY <1>0 DEF Decide, ghosts, TypeOK
<1>2. CASE \E o \in {"returned", "snapshot", "raised"} : Ends(o)
  BY <1>0, <1>1, <1>2, EndTypes, QuietTypes DEF Typed
<1>3. CASE /\ call.kind = "history" /\ pc' = "history"
           /\ UNCHANGED <<call, attempt, own, outcome, results, records>>
  <2>1. HostTypes' /\ Stages'
    BY <1>0, <1>1, <1>3 DEF HostTypes, TypeOK, Stages, Awaiting
  <2> QED
    BY <1>0, <1>1, <1>3, <2>1, QuietTypes DEF Typed
<1> QED
  BY <1>2, <1>3 DEF Decide

\* run_history ends: with the completion response, or without it.
LEMMA StopEffect ==
  ASSUME Typed, Complete \/ OtherResponse \/ Limit \/ OtherNode \/ HistoryTimeout
  PROVE  /\ pc = "records" /\ pc' = "idle" /\ outcome' # "snapshot"
         /\ UNCHANGED <<call, attempt, own, results, records, sent, req, lost>>
         /\ \/ /\ outcome' = "complete" /\ Complete
               /\ rep # << >> /\ rep[1].kind = "end" /\ closed' = rep[1]
               /\ Forsake(rep[1].id)
            \/ /\ outcome' # "complete" /\ abandoned' \in {abandoned, abandoned \cup {own}}
               /\ \/ rep # << >> /\ rep[1].kind \in {"ok", "error"} /\ Forsake(rep[1].id)
                     /\ \E n \in 1 .. Len(rep) : Dropped(n)
                  \/ own \in abandoned'
         /\ outcome' # "complete" => closed' = None
<1>0. TypeOK /\ rep \in Seq(Frame) /\ Len(rep) \in Nat /\ own > 0
  BY LenProperties DEF Typed, TypeOK, Stages, Awaiting, Complete, OtherResponse, Limit,
     OtherNode, HistoryTimeout, Receives
<1>1. rep # << >> => Head(rep) = rep[1]
  BY <1>0, Rest
<1>2. Consumed => \E n \in 1 .. Len(rep) : Dropped(n)
  BY <1>0, Drops DEF Consumed
<1>3. pc = "records" /\ req' = req
  BY DEF Complete, OtherResponse, Limit, OtherNode, HistoryTimeout, Receives, Stops
<1>4. CASE Complete
  BY <1>1, <1>3, <1>4 DEF Complete, Receives, Arrives, Stops, Ends
<1>5. CASE OtherResponse
  BY <1>1, <1>2, <1>3, <1>5 DEF OtherResponse, Receives, Arrives, Stops, Ends, Forsake
<1>6. CASE Limit \/ OtherNode \/ HistoryTimeout
  BY <1>0, <1>3, <1>6 DEF Limit, OtherNode, HistoryTimeout, Stops, Ends, Forsake
<1> QED
  BY <1>4, <1>5, <1>6

LEMMA StopTyped ==
  Typed /\ (Complete \/ OtherResponse \/ Limit \/ OtherNode \/ HistoryTimeout) => Typed'
<1> SUFFICES ASSUME Typed, Complete \/ OtherResponse \/ Limit \/ OtherNode \/ HistoryTimeout
             PROVE  Typed'
  OBVIOUS
<1>0. TypeOK /\ Stages /\ Quiet /\ own > 0
  BY QuietSteps, StopEffect DEF Typed, Stages, Awaiting
<1>1. /\ \E o \in {"complete", "device_error", "identity_error", "limit_error", "timeout"} : Ends(o)
      /\ lost' = lost /\ abandoned' \subseteq abandoned \cup {own}
  BY DEF Complete, OtherResponse, Limit, OtherNode, HistoryTimeout, Stops, Forsake
<1>2. closed' \in Frame \cup {None}
  <2>1. rep # << >> => rep[1] \in Frame
    BY <1>0, Rest DEF TypeOK
  <2> QED
    BY <2>1, StopEffect
<1>3. HostTypes' /\ Stages' /\ own' = own
  BY <1>0, <1>1, <1>2, EndTypes
<1> QED
  BY <1>0, <1>1, <1>3, QuietTypes DEF Typed

LEMMA TypedInit == Init => Typed
<1> SUFFICES ASSUME Init PROVE Typed
  OBVIOUS
<1>1. << >> \in Seq(Request) /\ << >> \in Seq(Frame) /\ << >> \in Seq(Result)
      /\ << >> \in Seq(Name \cup {"history", "write"}) /\ Len(<< >>) = 0
  BY EmptySeq
<1>2. call \in Call
  BY DEF Init, Call
<1>3. Len(call.names) \in Nat
  BY <1>2, CallFacts
<1>4. /\ node \in Node /\ attempt \in 0 .. Retries /\ own \in 0 .. Len(sent)
      /\ abandoned \subseteq 1 .. Len(sent)
      /\ Len(sent) <= MaxRequests /\ Len(records) <= MaxRecords
      /\ Len(results) <= Len(call.names)
  BY <1>1, <1>3 DEF Init, Node
<1>5. /\ req \in Seq(Request) /\ rep \in Seq(Frame) /\ results \in Seq(Result)
      /\ records \in Seq(Frame) /\ sent \in Seq(Name \cup {"history", "write"})
  BY <1>1 DEF Init
<1>6. TypeOK
  BY <1>2, <1>4, <1>5 DEF Init, TypeOK, Request
<1> QED
  BY <1>6 DEF Init, Typed, Stages, Awaiting

LEMMA TypedNext == Typed /\ [Next]_vars => Typed'
<1>1. Typed /\ UNCHANGED vars => Typed'
  BY DEF Typed, TypeOK, Stages, Awaiting, Current, vars
<1> QED
  BY <1>1, NodeTyped, WriteTyped, BeginTyped, OpenTyped, ErrorTyped, SendTyped, AnswerTyped,
     SkipTyped, RecordTyped, DecideTyped, StopTyped DEF Next, HostStep

\* The variables keep their types: the numbers of requests, the bounds on
\* attempts, results and records.
THEOREM QueryTypes == Spec => []TypeOK
<1>1. Typed => TypeOK
  BY DEF Typed
<1> QED
  BY <1>1, TypedInit, TypedNext, PTL DEF Spec

-----------------------------------------------------------------------------
(* The line keeps the order of the requests. *)

\* The four things that happen to the line.
LineDrops == /\ \E n \in 0 .. Len(rep) : Dropped(n)
             /\ sent' = sent /\ (req' = req \/ Len(req') = 0)

LineSends == rep' = rep /\ \E kind \in Name \cup {"history", "write"} : Sends(kind)

LineAnswers == sent' = sent /\ \E kind \in Name \cup Response : Answered(kind)

LineRecords == sent' = sent /\ Recorded

LEMMA LineSteps ==
  ASSUME Typed, [Next]_vars
  PROVE  \/ LineDrops \/ LineAnswers \/ LineRecords
         \/ LineSends /\ (AbandonedWrite \/ SendQuery \/ SendHistory)
<1>0. TypeOK /\ rep \in Seq(Frame) /\ Len(rep) \in Nat
  BY LenProperties DEF Typed, TypeOK
<1>1. 0 \in 0 .. Len(rep)
  BY <1>0
<1>2. CASE Begin \/ UNCHANGED vars \/ (Swap /\ NodeStep)
  <2>1. rep' = rep /\ sent' = sent /\ (req' = req \/ req' = << >>)
    BY <1>2 DEF Begin, Swap, NodeStep, vars, line
  <2> QED
    BY <1>0, <1>1, <2>1, Drops, EmptySeq DEF LineDrops
<1>3. CASE Lose /\ NodeStep
  <2>1. rep # << >> /\ rep' = Tail(rep) /\ sent' = sent /\ req' = req
    BY <1>3 DEF Lose, NodeStep
  <2>2. Dropped(1) /\ 1 \in 0 .. Len(rep)
    BY <1>0, <2>1, Drops
  <2> QED
    BY <2>1, <2>2 DEF LineDrops
<1>4. CASE Serve /\ NodeStep
  BY <1>0, <1>4, ServeEffect DEF NodeStep, LineAnswers
<1>5. CASE SendRecord /\ NodeStep
  BY <1>0, <1>5, RecordEffect DEF NodeStep, LineRecords
<1>6. CASE AbandonedWrite \/ SendHistory
  BY <1>0, <1>6, SendEffect DEF AbandonedWrite, SendHistory, LineSends
<1>7. CASE SendQuery
  BY <1>0, <1>7, CurrentIsName, SendEffect DEF SendQuery, LineSends
<1>8. CASE \/ Open \/ Disconnect \/ Raise \/ TakeAnswer \/ TakeResponse \/ SkipFrame
           \/ QueryTimeout \/ Decide \/ TakeRecord \/ SkipOther \/ Complete \/ OtherResponse
           \/ Limit \/ OtherNode \/ HistoryTimeout
  BY <1>0, <1>8, QuietSteps DEF Quiet, LineDrops
<1> QED
  BY <1>2, <1>3, <1>4, <1>5, <1>6, <1>7, <1>8 DEF Next, HostStep, NodeStep

LEMMA OrderDrops ==
  ASSUME Typed, InOrder, LineDrops PROVE InOrder'
<1>0. TypeOK
  BY DEF Typed
<1>1. PICK n \in 0 .. Len(rep) : Dropped(n)
  BY DEF LineDrops
<1>2. n \in Nat /\ Len(rep) \in Nat /\ Len(rep') = Len(rep) - n
  BY <1>0, <1>1, Elements DEF Dropped
<1>3. \A i \in Position(rep') : /\ i \in Nat /\ i + n \in Position(rep)
                                /\ rep'[i] = rep[i + n]
  BY <1>1, <1>2 DEF Dropped, Position
<1>4. \A k \in Position(req') : k \in Position(req) /\ req'[k] = req[k]
  BY DEF LineDrops, Position
<1>5. sent' = sent
  BY DEF LineDrops
<1>6. \A i \in Position(rep') : rep'[i].id <= Len(sent') /\ Answers(rep'[i], sent')
  BY <1>3, <1>5 DEF InOrder, Answers
<1>7. \A i, j \in Position(rep') : i < j => Before(rep'[i], rep'[j].id)
  <2> SUFFICES ASSUME NEW i \in Position(rep'), NEW j \in Position(rep'), i < j
               PROVE  Before(rep'[i], rep'[j].id)
    OBVIOUS
  <2>1. i \in Nat /\ j \in Nat /\ i + n < j + n
    BY <1>2, <1>3
  <2> QED
    BY <1>3, <2>1 DEF InOrder
<1> QED
  BY <1>3, <1>4, <1>5, <1>6, <1>7 DEF InOrder, Before

LEMMA OrderSends ==
  ASSUME Typed, InOrder, LineSends PROVE InOrder'
<1>0. TypeOK /\ rep' = rep
  BY DEF Typed, LineSends
<1>1. PICK kind \in Name \cup {"history", "write"} : Sends(kind)
  BY DEF LineSends
<1>2. /\ Len(sent') = Len(sent) + 1 /\ Len(sent) \in Nat /\ Len(req) \in Nat
      /\ Len(req') = Len(req) + 1
      /\ \A q \in 1 .. Len(sent) : sent'[q] = sent[q]
      /\ \A k \in 1 .. Len(req) : req'[k] = req[k]
      /\ sent'[Len(sent) + 1] = kind
      /\ req'[Len(req) + 1] = [kind |-> kind, id |-> Len(sent) + 1, n |-> 0]
  BY <1>1, <1>0, Elements DEF Sends, Longer
<1>3. \A i \in Position(rep) : rep[i].id \in Nat /\ rep[i].id > 0 /\ rep[i].id <= Len(sent)
  BY <1>0, Elements DEF InOrder
<1>4. \A i \in Position(rep) : /\ rep[i].id \in 1 .. Len(sent) /\ rep[i].id < Len(sent) + 1
                               /\ rep[i].id <= Len(sent) + 1
  BY <1>2, <1>3
<1>5. \A k \in Position(req) : req[k].id \in Nat /\ req[k].id > 0 /\ req[k].id <= Len(sent)
  BY <1>0, Elements DEF InOrder
<1>6. \A k \in Position(req) : /\ req[k].id \in 1 .. Len(sent) /\ req[k].id < Len(sent) + 1
                               /\ req[k].id <= Len(sent) + 1
  BY <1>2, <1>5
<1>7. \A k \in Position(req') : k \in Nat /\ (k \in Position(req) \/ k = Len(req) + 1)
  BY <1>2 DEF Position
<1>8. \A k \in Position(req') : \/ k \in Position(req) /\ req'[k] = req[k]
                                \/ k = Len(req) + 1 /\ req'[k].id = Len(sent) + 1 /\ req'[k].kind = kind
  BY <1>2, <1>7 DEF Position
<1>9. \A i \in Position(rep') : rep'[i].id <= Len(sent') /\ Answers(rep'[i], sent')
  BY <1>0, <1>2, <1>4 DEF InOrder, Answers
<1>10. \A k \in Position(req') : req'[k].id <= Len(sent') /\ sent'[req'[k].id] = req'[k].kind
  <2> SUFFICES ASSUME NEW k \in Position(req')
               PROVE  req'[k].id <= Len(sent') /\ sent'[req'[k].id] = req'[k].kind
    OBVIOUS
  <2>1. CASE k \in Position(req) /\ req'[k] = req[k]
    BY <1>2, <1>6, <2>1 DEF InOrder
  <2>2. CASE req'[k].id = Len(sent) + 1 /\ req'[k].kind = kind
    BY <1>2, <2>2
  <2> QED
    BY <1>8, <2>1, <2>2
<1>11. \A i, j \in Position(req') : i < j => req'[i].id < req'[j].id
  <2> SUFFICES ASSUME NEW i \in Position(req'), NEW j \in Position(req'), i < j
               PROVE  req'[i].id < req'[j].id
    OBVIOUS
  <2>1. i \in Position(req) /\ req'[i] = req[i]
    BY <1>2, <1>7, <1>8 DEF Position
  <2> QED
    BY <1>6, <1>8, <2>1 DEF InOrder
<1>12. \A i \in Position(rep') : \A k \in Position(req') : Before(rep'[i], req'[k].id)
  BY <1>0, <1>4, <1>8 DEF InOrder, Before
<1> QED
  BY <1>0, <1>9, <1>10, <1>11, <1>12 DEF InOrder

\* The facts about the first request that its answer and its records share.
LEMMA FirstRequest ==
  ASSUME Typed, InOrder, req # << >>
  PROVE  /\ 1 \in Position(req) /\ req[1] \in Request /\ req[1].id \in Nat
         /\ req[1].id <= Len(sent) /\ sent[req[1].id] = req[1].kind
         /\ \A i \in Position(rep) : Before(rep[i], req[1].id)
         /\ \A k \in Position(req) : k # 1 => req[1].id < req[k].id
<1>1. /\ Len(req) \in Nat /\ Len(req) > 0 /\ TypeOK
      /\ \A k \in Position(req) : req[k] \in Request /\ k \in Nat
  BY Elements DEF Typed
<1>2. 1 \in Position(req)
  BY <1>1 DEF Position
<1>3. \A k \in Position(req) : k # 1 => 1 < k
  BY <1>1 DEF Position
<1> QED
  BY <1>1, <1>2, <1>3, Elements DEF InOrder

\* The positions of the line after a frame was added at its end.
LEMMA Emitted ==
  ASSUME Typed, NEW kind, NEW m \in Request, Emits(kind, m)
  PROVE  /\ Len(rep') = Len(rep) + 1 /\ Len(rep) \in Nat
         /\ \A i \in Position(rep') : i \in Nat /\
              \/ i \in Position(rep) /\ rep'[i] = rep[i]
              \/ /\ i = Len(rep) + 1 /\ rep'[i].id = m.id /\ rep'[i].kind = kind
                 /\ rep'[i].n = m.n
         /\ \A i, j \in Position(rep') : i < j => i \in Position(rep)
<1>1. Len(rep') = Len(rep) + 1 /\ Len(rep) \in Nat
  BY DEF Emits, Longer
<1>2. \A i \in Position(rep') : i \in Nat /\ (i \in Position(rep) \/ i = Len(rep) + 1)
  BY <1>1 DEF Position
<1> QED
  BY <1>1, <1>2 DEF Emits, Longer, Position

LEMMA OrderAnswers ==
  ASSUME Typed, InOrder, LineAnswers PROVE InOrder'
<1>1. PICK kind \in Name \cup Response : Answered(kind)
  BY DEF LineAnswers
<1>2. /\ 1 \in Position(req) /\ req[1] \in Request /\ req[1].id \in Nat
      /\ req[1].id <= Len(sent) /\ sent[req[1].id] = req[1].kind
      /\ \A i \in Position(rep) : Before(rep[i], req[1].id)
      /\ \A k \in Position(req) : k # 1 => req[1].id < req[k].id
  BY <1>1, FirstRequest DEF Answered
<1>3. /\ Len(rep') = Len(rep) + 1 /\ Len(rep) \in Nat
      /\ \A i \in Position(rep') : i \in Nat /\
           \/ i \in Position(rep) /\ rep'[i] = rep[i]
           \/ i = Len(rep) + 1 /\ rep'[i].id = req[1].id /\ rep'[i].kind = kind
      /\ \A i, j \in Position(rep') : i < j => i \in Position(rep)
  BY <1>1, <1>2, Emitted DEF Answered
<1>4. \A k \in Position(req') : /\ k \in Nat /\ k + 1 \in Position(req) /\ k + 1 # 1
                                /\ req'[k] = req[k + 1]
  BY <1>1 DEF Answered, Shorter, Position
<1>5. sent' = sent /\ kind # "record"
  BY NameFacts DEF LineAnswers, Response
<1>6. \A i \in Position(rep') : rep'[i].id <= Len(sent') /\ Answers(rep'[i], sent')
  <2>1. ASSUME NEW i \in Position(rep'), rep'[i].id = req[1].id, rep'[i].kind = kind
        PROVE  rep'[i].id <= Len(sent) /\ Answers(rep'[i], sent)
    BY <1>1, <1>2, <1>5, <2>1, NameFacts DEF Answers, Answered
  <2> QED
    BY <1>3, <1>5, <2>1 DEF InOrder
<1>7. \A i, j \in Position(rep') : i < j => Before(rep'[i], rep'[j].id)
  <2> SUFFICES ASSUME NEW i \in Position(rep'), NEW j \in Position(rep'), i < j
               PROVE  Before(rep'[i], rep'[j].id)
    OBVIOUS
  <2>1. i \in Position(rep) /\ i # Len(rep) + 1
    BY <1>3 DEF Position
  <2> QED
    BY <1>2, <1>3, <2>1 DEF InOrder
<1>8. \A i, j \in Position(req') : i < j => req'[i].id < req'[j].id
  <2> SUFFICES ASSUME NEW i \in Position(req'), NEW j \in Position(req'), i < j
               PROVE  req'[i].id < req'[j].id
    OBVIOUS
  <2>1. i + 1 < j + 1
    BY <1>4
  <2> QED
    BY <1>4, <2>1 DEF InOrder
<1>9. \A i \in Position(rep') : \A k \in Position(req') : Before(rep'[i], req'[k].id)
  BY <1>2, <1>3, <1>4 DEF InOrder, Before
<1> QED
  BY <1>4, <1>5, <1>6, <1>7, <1>8, <1>9 DEF InOrder

LEMMA OrderRecords ==
  ASSUME Typed, InOrder, LineRecords PROVE InOrder'
<1>1. Recorded /\ sent' = sent
  BY DEF LineRecords
<1>2. /\ 1 \in Position(req) /\ req[1] \in Request /\ req[1].id \in Nat
      /\ req[1].id <= Len(sent) /\ sent[req[1].id] = req[1].kind
      /\ \A i \in Position(rep) : Before(rep[i], req[1].id)
      /\ \A k \in Position(req) : k # 1 => req[1].id < req[k].id
  BY <1>1, FirstRequest DEF Recorded
<1>3. /\ Len(rep') = Len(rep) + 1 /\ Len(rep) \in Nat
      /\ \A i \in Position(rep') : i \in Nat /\
           \/ i \in Position(rep) /\ rep'[i] = rep[i]
           \/ i = Len(rep) + 1 /\ rep'[i].id = req[1].id /\ rep'[i].kind = "record"
      /\ \A i, j \in Position(rep') : i < j => i \in Position(rep)
  BY <1>1, <1>2, Emitted DEF Recorded
<1>4. /\ Position(req') = Position(req)
      /\ \A k \in Position(req) : req'[k].id = req[k].id /\ req'[k].kind = req[k].kind
  BY <1>1, Elements DEF Recorded, Position, Typed
<1>5. \A i \in Position(rep') : rep'[i].id <= Len(sent') /\ Answers(rep'[i], sent')
  <2>1. ASSUME NEW i \in Position(rep'), rep'[i].id = req[1].id, rep'[i].kind = "record"
        PROVE  rep'[i].id <= Len(sent) /\ Answers(rep'[i], sent)
    BY <1>1, <1>2, <2>1, NameFacts DEF Answers, Recorded
  <2> QED
    BY <1>1, <1>3, <2>1 DEF InOrder
<1>6. \A i, j \in Position(rep') : i < j => Before(rep'[i], rep'[j].id)
  <2> SUFFICES ASSUME NEW i \in Position(rep'), NEW j \in Position(rep'), i < j
               PROVE  Before(rep'[i], rep'[j].id)
    OBVIOUS
  <2>1. i \in Position(rep) /\ i # Len(rep) + 1
    BY <1>3 DEF Position
  <2> QED
    BY <1>2, <1>3, <2>1 DEF InOrder
<1>7. \A i \in Position(rep') : \A k \in Position(req') : Before(rep'[i], req'[k].id)
  <2>1. ASSUME NEW i \in Position(rep'), rep'[i].id = req[1].id, rep'[i].kind = "record",
               NEW k \in Position(req)
        PROVE  Before(rep'[i], req[k].id)
    BY <1>2, <2>1 DEF Before
  <2> QED
    BY <1>3, <1>4, <2>1 DEF InOrder
<1>8. \A i, j \in Position(req') : i < j => req'[i].id < req'[j].id
  BY <1>4 DEF InOrder
<1>9. \A k \in Position(req') : req'[k].id <= Len(sent') /\ sent'[req'[k].id] = req'[k].kind
  BY <1>1, <1>4 DEF InOrder
<1> QED
  BY <1>5, <1>6, <1>7, <1>8, <1>9 DEF InOrder

Ordered == Typed /\ InOrder

LEMMA OrderedInv == Spec => []Ordered
<1>1. Init => Ordered
  <2>1. Init => Len(rep) = 0 /\ Len(req) = 0
    BY EmptySeq DEF Init
  <2>2. Init => InOrder
    BY <2>1 DEF InOrder, Position
  <2> QED
    BY <2>2, TypedInit DEF Ordered
<1>2. Ordered /\ [Next]_vars => Ordered'
  BY TypedNext, LineSteps, OrderDrops, OrderSends, OrderAnswers, OrderRecords DEF Ordered
<1> QED
  BY <1>1, <1>2, PTL DEF Spec

-----------------------------------------------------------------------------
(* What is coming. *)

LEMMA ComingIds ==
  ASSUME Ordered
  PROVE  Ranges \subseteq Coming /\ \A id \in Coming : id \in Nat /\ id > 0 /\ id <= Len(sent)
<1>1. TypeOK /\ InOrder
  BY DEF Ordered, Typed
<1>2. \A i \in Position(rep) : rep[i].id \in Nat /\ rep[i].id > 0 /\ rep[i].id <= Len(sent)
  BY <1>1, Elements DEF InOrder
<1>3. \A k \in Position(req) : req[k].id \in Nat /\ req[k].id > 0 /\ req[k].id <= Len(sent)
  BY <1>1, Elements DEF InOrder
<1> QED
  BY <1>2, <1>3 DEF Coming, Ranges, RangeFrames, RangeRequests

LEMMA DropsComing ==
  ASSUME Ordered, NEW n \in 0 .. Len(rep), Dropped(n), req' = req \/ Len(req') = 0
  PROVE  Coming' \subseteq Coming /\ Ranges' \subseteq Ranges
<1>1. Len(rep) \in Nat /\ n \in Nat /\ Len(rep') = Len(rep) - n
  BY Elements DEF Ordered, Typed, Dropped
<1>2. \A i \in Position(rep') : i + n \in Position(rep) /\ rep'[i] = rep[i + n]
  BY <1>1 DEF Dropped, Position
<1>3. \A k \in Position(req') : k \in Position(req) /\ req'[k] = req[k]
  BY DEF Position
<1> QED
  BY <1>2, <1>3 DEF Coming, Ranges, RangeFrames, RangeRequests

LEMMA AnswersComing ==
  ASSUME Ordered, LineAnswers \/ LineRecords
  PROVE  Coming' \subseteq Coming /\ Ranges' \subseteq Ranges
<1>0. Typed /\ InOrder /\ TypeOK
  BY DEF Ordered, Typed
<1>1. CASE LineAnswers
  <2>1. PICK kind \in Name \cup Response : Answered(kind)
    BY <1>1 DEF LineAnswers
  <2>2. 1 \in Position(req) /\ req[1] \in Request
    BY <1>0, <2>1, FirstRequest DEF Answered
  <2>3. \A i \in Position(rep') :
          \/ i \in Position(rep) /\ rep'[i] = rep[i]
          \/ rep'[i].id = req[1].id /\ rep'[i].kind = kind
    BY <1>0, <2>1, <2>2, Emitted DEF Answered
  <2>4. \A k \in Position(req') : k + 1 \in Position(req) /\ req'[k] = req[k + 1]
    BY <2>1 DEF Answered, Shorter, Position
  <2>5. kind \in {"record", "end"} => req[1].kind = "history"
    BY <2>1, NameFacts DEF Answered, Response
  <2>6. Coming' \subseteq Coming
    BY <2>2, <2>3, <2>4 DEF Coming
  <2>7. Ranges' \subseteq Ranges
    BY <2>2, <2>3, <2>4, <2>5 DEF Ranges, RangeFrames, RangeRequests
  <2> QED
    BY <2>6, <2>7
<1>2. CASE LineRecords
  <2>1. Recorded
    BY <1>2 DEF LineRecords
  <2>2. 1 \in Position(req) /\ req[1] \in Request
    BY <1>0, <2>1, FirstRequest DEF Recorded
  <2>3. \A i \in Position(rep') :
          \/ i \in Position(rep) /\ rep'[i] = rep[i]
          \/ rep'[i].id = req[1].id
    BY <1>0, <2>1, <2>2, Emitted DEF Recorded
  <2>4. /\ Position(req') = Position(req)
        /\ \A k \in Position(req) : req'[k].id = req[k].id /\ req'[k].kind = req[k].kind
    BY <1>0, <2>1, Elements DEF Recorded, Position
  <2>5. Coming' \subseteq Coming
    BY <2>2, <2>3, <2>4 DEF Coming
  <2>6. Ranges' \subseteq Ranges
    BY <2>1, <2>2, <2>3, <2>4 DEF Ranges, RangeFrames, RangeRequests, Recorded
  <2> QED
    BY <2>5, <2>6
<1> QED
  BY <1>1, <1>2

LEMMA SendsComing ==
  ASSUME Ordered, NEW kind \in Name \cup {"history", "write"}, Sends(kind), rep' = rep
  PROVE  /\ Coming' \subseteq Coming \cup {Len(sent) + 1}
         /\ Ranges' \subseteq Ranges \cup (IF kind = "history" THEN {Len(sent) + 1} ELSE {})
         /\ Len(sent') = Len(sent) + 1 /\ Len(sent) \in Nat
         /\ \A q \in Position(sent) : sent'[q] = sent[q]
         /\ sent'[Len(sent) + 1] = kind
<1>0. TypeOK
  BY DEF Ordered, Typed
<1>1. /\ Len(sent') = Len(sent) + 1 /\ Len(sent) \in Nat /\ Len(req) \in Nat
      /\ Len(req') = Len(req) + 1
      /\ \A q \in 1 .. Len(sent) : sent'[q] = sent[q]
      /\ \A k \in 1 .. Len(req) : req'[k] = req[k]
      /\ sent'[Len(sent) + 1] = kind
      /\ req'[Len(req) + 1] = [kind |-> kind, id |-> Len(sent) + 1, n |-> 0]
  BY <1>0, Elements DEF Sends, Longer
<1>2. \A k \in Position(req') : \/ k \in Position(req) /\ req'[k] = req[k]
                                \/ req'[k].id = Len(sent) + 1 /\ req'[k].kind = kind
  <2>1. \A k \in Position(req') : k \in 1 .. Len(req) \/ k = Len(req) + 1
    BY <1>1 DEF Position
  <2> QED
    BY <1>1, <2>1 DEF Position
<1>3. Coming' \subseteq Coming \cup {Len(sent) + 1}
  BY <1>2 DEF Coming
<1>4. Ranges' \subseteq Ranges \cup (IF kind = "history" THEN {Len(sent) + 1} ELSE {})
  BY <1>2 DEF Ranges, RangeFrames, RangeRequests
<1> QED
  BY <1>1, <1>3, <1>4 DEF Position

\* A frame that is no record is followed by frames of later requests only.
LEMMA Passed ==
  ASSUME Ordered, rep # << >>, rep[1].kind # "record", NEW n \in 1 .. Len(rep), Dropped(n),
         req' = req
  PROVE  rep[1].id \in Coming /\ \A id \in Coming' : rep[1].id < id
<1>0. TypeOK /\ InOrder /\ Len(rep) \in Nat /\ 1 \in Position(rep)
  BY Elements DEF Ordered, Typed, Position
<1>1. n \in Nat /\ n > 0 /\ Len(rep') = Len(rep) - n
  BY <1>0 DEF Dropped
<1>2. \A i \in Position(rep') : i + n \in Position(rep) /\ 1 < i + n /\ rep'[i] = rep[i + n]
  BY <1>0, <1>1 DEF Dropped, Position
<1>3. \A i \in Position(rep') : rep[1].id < rep'[i].id
  BY <1>0, <1>2 DEF InOrder, Before
<1>4. \A k \in Position(req') : rep[1].id < req'[k].id
  BY <1>0 DEF InOrder, Before
<1> QED
  BY <1>0, <1>3, <1>4 DEF Coming

\* Which steps send what, and what all the others do to the line.
LEMMA LineCases ==
  ASSUME Ordered, [Next]_vars
  PROVE  \/ Coming' \subseteq Coming /\ Ranges' \subseteq Ranges /\ sent' = sent
         \/ rep' = rep /\ \/ AbandonedWrite /\ Sends("write")
                          \/ SendHistory /\ Sends("history")
                          \/ SendQuery /\ Sends(Current) /\ Current \in Name
<1>0. Typed /\ TypeOK
  BY DEF Ordered, Typed
<1>1. CASE LineDrops
  BY <1>1, DropsComing DEF LineDrops
<1>2. CASE LineAnswers \/ LineRecords
  BY <1>2, AnswersComing DEF LineAnswers, LineRecords
<1>3. CASE AbandonedWrite \/ SendHistory
  BY <1>0, <1>3, SendEffect DEF AbandonedWrite, SendHistory
<1>4. CASE SendQuery
  <2>1. Current \in Name /\ Send(Current) /\ rep' = rep
    BY <1>0, <1>4, CurrentIsName DEF SendQuery
  <2> QED
    BY <1>0, <1>4, <2>1, SendEffect
<1> QED
  BY <1>0, <1>1, <1>2, <1>3, <1>4, LineSteps

\* Nothing sent and nothing abandoned is forgotten.
LEMMA Growth ==
  ASSUME Ordered, [Next]_vars
  PROVE  /\ abandoned \subseteq abandoned'
         /\ Len(sent) <= Len(sent') /\ Len(sent) \in Nat /\ Len(sent') \in Nat
         /\ \A q \in Position(sent) : q \in Position(sent') /\ sent'[q] = sent[q]
<1>0. Typed /\ TypeOK /\ Len(sent) \in Nat
  BY Elements DEF Ordered, Typed
<1>1. abandoned \subseteq abandoned'
  <2>1. CASE Begin \/ NodeStep \/ AbandonedWrite \/ UNCHANGED vars \/ Open \/ Disconnect \/ Raise
    BY <2>1 DEF Begin, NodeStep, AbandonedWrite, vars, Open, Disconnect, Raise, ghosts
  <2>2. CASE SendQuery \/ SkipFrame \/ Decide \/ SendHistory \/ TakeRecord \/ SkipOther
    BY <2>2 DEF SendQuery, SkipFrame, Decide, SendHistory, TakeRecord, SkipOther, ghosts
  <2>3. CASE TakeAnswer \/ TakeResponse \/ QueryTimeout
    BY <2>3 DEF TakeAnswer, TakeResponse, QueryTimeout, Forsake
  <2>4. CASE Complete \/ OtherResponse \/ Limit \/ OtherNode \/ HistoryTimeout
    BY <2>4 DEF Complete, OtherResponse, Limit, OtherNode, HistoryTimeout, Stops, Forsake
  <2> QED
    BY <2>1, <2>2, <2>3, <2>4 DEF Next, HostStep
<1>2. sent' = sent \/ \E kind : Sends(kind)
  BY LineCases
<1>3. CASE sent' = sent
  BY <1>0, <1>1, <1>3
<1>4. ASSUME NEW kind, Sends(kind)
      PROVE  /\ Len(sent) <= Len(sent') /\ Len(sent') \in Nat
             /\ \A q \in Position(sent) : q \in Position(sent') /\ sent'[q] = sent[q]
  <2>1. Len(sent') = Len(sent) + 1 /\ \A q \in 1 .. Len(sent) : sent'[q] = sent[q]
    BY <1>4 DEF Sends, Longer
  <2> QED
    BY <1>0, <2>1 DEF Position
<1> QED
  BY <1>0, <1>1, <1>2, <1>3, <1>4

\* The wait for a range goes on, or the range is abandoned, or nothing of it is
\* coming any more.
LEMMA RangeGoesOn ==
  ASSUME Ordered, [Next]_vars, pc = "records"
  PROVE  \/ pc' = "records" /\ own' = own
         \/ own \in abandoned'
         \/ Coming' = {}
<1>0. Typed /\ own = Len(sent) /\ Len(sent) \in Nat
  BY Elements DEF Ordered, Typed, Stages, Awaiting
<1>1. CASE Disconnect \/ Raise
  BY <1>1 DEF Disconnect, Raise, Awaiting
<1>2. CASE Complete \/ OtherResponse \/ Limit \/ OtherNode \/ HistoryTimeout
  <2>1. CASE own \in abandoned'
    BY <2>1
  <2>2. CASE own \notin abandoned'
    <3>1. /\ rep # << >> /\ rep[1].kind \in {"end", "ok", "error"} /\ Forsake(rep[1].id)
          /\ \E n \in 1 .. Len(rep) : Dropped(n)
          /\ req' = req /\ sent' = sent
      <4>1. Complete => \E n \in 1 .. Len(rep) : Dropped(n)
        BY <1>0, Drops DEF Complete, Consumed, Typed, TypeOK
      <4> QED
        BY <1>0, <1>2, <2>2, <4>1, StopEffect
    <3>2. rep[1].id = own
      BY <2>2, <3>1 DEF Forsake
    <3>3. \A id \in Coming' : own < id
      BY <3>1, <3>2, Passed
    <3>4. \A id \in Coming' : id \in Coming
      <4>1. Len(rep) \in Nat
        BY Elements DEF Ordered, Typed
      <4> QED
        BY <3>1, <4>1, DropsComing
    <3>5. \A id \in Coming' : FALSE
      BY <1>0, <3>3, <3>4, ComingIds
    <3> QED
      BY <3>5
  <2> QED
    BY <2>1, <2>2
<1>3. CASE NodeStep \/ UNCHANGED vars \/ TakeRecord \/ SkipOther
  BY <1>3 DEF NodeStep, vars, TakeRecord, SkipOther
<1> QED
  BY <1>1, <1>2, <1>3 DEF Next, HostStep, Begin, AbandonedWrite, Open, SendQuery, TakeAnswer,
     TakeResponse, SkipFrame, QueryTimeout, Decide, SendHistory

LEMMA DebtsNext ==
  ASSUME Ordered, Debts, [Next]_vars PROVE Debts'
<1>1. \A q \in Position(sent') : sent'[q] = "write" => q \in abandoned'
  <2>1. CASE sent' = sent
    BY <2>1, Growth DEF Debts
  <2>2. ASSUME NEW kind, Sends(kind), kind # "write" \/ AbandonedWrite
        PROVE  \A q \in Position(sent') : sent'[q] = "write" => q \in abandoned'
    <3>1. /\ Len(sent') = Len(sent) + 1 /\ Len(sent) \in Nat
          /\ \A q \in 1 .. Len(sent) : sent'[q] = sent[q]
          /\ sent'[Len(sent) + 1] = kind
      BY <2>2 DEF Sends, Longer
    <3>2. \A q \in Position(sent') : q \in Position(sent) \/ q = Len(sent) + 1
      BY <3>1 DEF Position
    <3>3. AbandonedWrite => Len(sent) + 1 \in abandoned'
      BY <3>1 DEF AbandonedWrite
    <3> QED
      BY <2>2, <3>1, <3>2, <3>3, Growth DEF Debts, Position
  <2> QED
    BY <2>1, <2>2, LineCases, NameFacts
<1>2. ASSUME NEW id \in Ranges
      PROVE  id \in Ranges' => id \in abandoned' \/ (pc' = "records" /\ id = own')
  <2>1. CASE id \in abandoned
    BY <2>1, Growth
  <2>2. CASE pc = "records" /\ id = own
    <3>1. Coming' = {} => Ranges' = {}
      <4>1. Ranges' \subseteq Coming'
        BY DEF Ranges, Coming, RangeFrames, RangeRequests
      <4> QED
        BY <4>1
    <3> QED
      BY <2>2, <3>1, RangeGoesOn
  <2> QED
    BY <2>1, <2>2 DEF Debts
<1>3. \A id \in Ranges' : id \in abandoned' \/ (pc' = "records" /\ id = own')
  <2>1. CASE Ranges' \subseteq Ranges
    BY <1>2, <2>1
  <2>2. CASE SendHistory /\ Sends("history") /\ rep' = rep
    <3>1. /\ Ranges' \subseteq Ranges \cup {Len(sent) + 1} /\ Len(sent') = Len(sent) + 1
          /\ pc' = "records" /\ own' = Len(sent')
      BY <2>2, SendsComing DEF SendHistory
    <3> QED
      BY <1>2, <3>1
  <2>3. ASSUME NEW kind \in Name \cup {"write"}, Sends(kind), rep' = rep
        PROVE  Ranges' \subseteq Ranges
    BY <2>3, SendsComing, NameFacts
  <2> QED
    BY <2>1, <2>2, <2>3, LineCases
<1> QED
  BY <1>1, <1>3 DEF Debts

-----------------------------------------------------------------------------
(* The series of results. *)

\* What a step does to the results: drops them, keeps them, or adds one.
LEMMA SeriesCases ==
  ASSUME Ordered, [Next]_vars
  PROVE  \/ Len(results') = 0 /\ pc' \in {"open", "send", "idle"}
         \/ UNCHANGED <<results, call>>
         \/ TakeAnswer \/ TakeResponse \/ QueryTimeout
<1>1. CASE Begin \/ Open
  BY <1>1, EmptySeq DEF Begin, Open
<1>2. ASSUME NEW o, Ends(o)
      PROVE  (Len(results') = 0 /\ pc' = "idle") \/ UNCHANGED <<results, call>>
  BY <1>2, EmptySeq DEF Ends
<1>3. CASE Disconnect \/ Raise \/ Decide
  BY <1>2, <1>3 DEF Disconnect, Raise, Decide
<1>4. CASE Complete \/ OtherResponse \/ Limit \/ OtherNode \/ HistoryTimeout
  BY <1>4, StopEffect DEF Ordered
<1>5. CASE NodeStep \/ AbandonedWrite \/ UNCHANGED vars \/ SendQuery \/ SkipFrame \/ SendHistory
           \/ TakeRecord \/ SkipOther
  BY <1>5 DEF NodeStep, AbandonedWrite, vars, SendQuery, SkipFrame, SendHistory, TakeRecord,
              SkipOther
<1> QED
  BY <1>1, <1>3, <1>4, <1>5 DEF Next, HostStep

LEMMA ConcludedStays ==
  ASSUME Ordered, [Next]_vars, NEW r \in Result, Concluded(r) PROVE Concluded(r)'
<1>1. r.own \in Nat /\ r.own > 0 /\ r.from \in Nat
  BY ResultTypes
<1>2. /\ Len(sent) <= Len(sent') /\ Len(sent) \in Nat /\ Len(sent') \in Nat
      /\ \A q \in Position(sent) : sent'[q] = sent[q]
  BY Growth
<1>3. r.own \in Position(sent) /\ r.own <= Len(sent') /\ r.from <= Len(sent)
  BY <1>1, <1>2 DEF Concluded, Position
<1>4. r.from > 0 => r.from \in Position(sent)
  BY <1>1, <1>2, <1>3 DEF Position
<1>5. \A id \in Coming' : id \in Coming \/ id = Len(sent) + 1
  BY LineCases, SendsComing
<1>6. \A id \in Coming' : r.from < id
  BY <1>1, <1>2, <1>3, <1>5 DEF Concluded
<1> QED
  BY <1>1, <1>2, <1>3, <1>4, <1>6 DEF Concluded

LEMMA SeriesDropped ==
  ASSUME Len(results') = 0, pc' \in {"open", "send", "idle"} PROVE Series'
BY DEF Series, Position, Consecutive, Increasing, LastResult

LEMMA SeriesKept ==
  ASSUME Ordered, Series, [Next]_vars, UNCHANGED <<results, call>> PROVE Series'
<1>0. Typed /\ TypeOK /\ Len(results) \in Nat
      /\ \A k \in Position(results) : results[k] \in Result
  BY Elements DEF Ordered, Typed
<1>1. \A k \in Position(results) : Concluded(results[k])' /\ results[k].name = call.names[k]
  BY <1>0, ConcludedStays DEF Series
<1>2. Consecutive' /\ Increasing'
  BY DEF Series, Consecutive, Increasing
<1>3. LastResult'
  <2> SUFFICES ASSUME Len(results) > 0 PROVE LastResult'
    BY DEF LastResult
  <2>1. Len(results) \in Position(results)
    BY <1>0 DEF Position
  <2>2. results[Len(results)].own \in Nat /\ Len(sent) \in Nat
    BY <1>0, <2>1, ResultTypes, Growth
  <2>3. CASE SendQuery \/ SendHistory
    <3>1. Len(sent') = Len(sent) + 1 /\ pc \in {"send", "history"} /\ pc' \in {"await", "records"}
      <4>1. SendQuery => Current \in Name
        BY <1>0, CurrentIsName DEF SendQuery
      <4> QED
        BY <1>0, <2>3, <4>1, SendEffect DEF SendQuery, SendHistory
    <3> QED
      BY <2>2, <3>1 DEF Series, LastResult
  <2>4. CASE pc' = pc /\ sent' = sent
    BY <2>4 DEF Series, LastResult
  <2>5. CASE Decide
    BY <2>5 DEF Decide, Ends, ghosts, Series, LastResult
  <2>6. CASE pc' \in {"idle", "open"}
    BY <2>6 DEF LastResult
  <2>7. CASE NodeStep \/ SkipFrame \/ TakeRecord \/ SkipOther \/ UNCHANGED vars
    BY <2>4, <2>7 DEF NodeStep, SkipFrame, TakeRecord, SkipOther, vars, ghosts
  <2>8. CASE Begin \/ AbandonedWrite \/ Disconnect \/ Raise \/ Complete \/ OtherResponse
             \/ Limit \/ OtherNode \/ HistoryTimeout
    BY <2>6, <2>8 DEF Begin, AbandonedWrite, Disconnect, Raise, Complete, OtherResponse, Limit,
       OtherNode, HistoryTimeout, Stops, Ends
  <2>9. CASE Open \/ TakeAnswer \/ TakeResponse \/ QueryTimeout
    <3>1. CASE Open
      BY <2>1, <3>1, EmptySeq DEF Open
    <3>2. CASE TakeAnswer \/ TakeResponse \/ QueryTimeout
      <4>1. \E status, from : Concludes(status, from)
        BY <1>0, <3>2, TakenAnswers
      <4> QED
        BY <1>0, <4>1 DEF Concludes
    <3> QED
      BY <2>9, <3>1, <3>2
  <2> QED
    BY <2>3, <2>5, <2>7, <2>8, <2>9 DEF Next, HostStep
<1>4. pc' \in {"history", "records"} => StatusIn({"ok", "empty"})'
  <2>1. pc' \in {"history", "records"} => pc \in {"history", "records"} \/ Decide
    BY DEF Next, HostStep, NodeStep, Begin, AbandonedWrite, vars, Open, Disconnect, Raise,
       SendQuery, TakeAnswer, TakeResponse, QueryTimeout, Conclude, SkipFrame, SendHistory,
       TakeRecord, SkipOther, Complete, OtherResponse, Limit, OtherNode, HistoryTimeout, Stops,
       Ends
  <2>2. StatusIn({"ok", "empty"})' <=> StatusIn({"ok", "empty"})
    BY DEF StatusIn
  <2>3. Decide /\ pc' \in {"history", "records"} => StatusIn({"ok", "empty"})
    BY DEF Decide, Ends
  <2> QED
    BY <2>1, <2>2, <2>3 DEF Series
<1> QED
  BY <1>1, <1>2, <1>3, <1>4 DEF Series

\* The result that a step adds, whichever way the query ended.
Adds(r) ==
  /\ Len(results') = Len(results) + 1 /\ Len(results) \in Nat
  /\ \A k \in Position(results) : results'[k] = results[k]
  /\ results'[Len(results) + 1] = r
  /\ r.name = Current /\ r.own = own
  /\ r.from = 0 \/ r.from \in Coming

LEMMA ResultAdded ==
  ASSUME Ordered, Debts, Series, TakeAnswer \/ TakeResponse \/ QueryTimeout
  PROVE  /\ pc = "await" /\ own = Len(sent) /\ own > 0 /\ UNCHANGED <<sent, call, own, req>>
         /\ pc' \in {"send", "decide"}
         /\ \E r \in Result : Adds(r) /\ Concluded(r)'
<1>0. /\ Typed /\ InOrder /\ pc = "await" /\ own = Len(sent) /\ Len(sent) \in Nat /\ own > 0
      /\ sent[own] = Current /\ Current \in Name
  <2>1. Typed /\ InOrder /\ pc = "await" /\ Len(sent) \in Nat
    BY Elements DEF Ordered, Typed, TakeAnswer, TakeResponse, QueryTimeout
  <2> QED
    BY <2>1, CurrentIsName DEF Typed, Stages, Awaiting
<1>1. PICK status, from :
        /\ Concludes(status, from) /\ status \in {"ok", "empty", "failed"}
        /\ \/ /\ rep # << >> /\ from = rep[1].id /\ rep[1].kind # "record"
              /\ \E n \in 1 .. Len(rep) : Dropped(n)
              /\ status = "ok" => rep[1].kind = Current
              /\ status = "empty" => rep[1].kind = "ok"
           \/ status = "failed" /\ from = 0
  <2>1. CASE TakeAnswer
    <3>1. /\ rep # << >> /\ rep[1].kind = Current /\ \E s \in {"ok", "failed"} : Concludes(s, rep[1].id)
          /\ \E n \in 1 .. Len(rep) : Dropped(n)
      BY <1>0, <2>1, TakenAnswers
    <3>2. rep[1].kind # "record"
      BY <1>0, <3>1, NameFacts
    <3> QED
      BY <3>1, <3>2
  <2>2. CASE TakeResponse
    <3>1. /\ rep # << >> /\ rep[1].kind \in Response
          /\ \/ rep[1].kind = "ok" /\ Concludes("empty", rep[1].id)
             \/ Concludes("failed", rep[1].id)
          /\ \E n \in 1 .. Len(rep) : Dropped(n)
      BY <1>0, <2>2, TakenAnswers
    <3> QED
      BY <3>1 DEF Response
  <2>3. CASE QueryTimeout
    BY <1>0, <2>3, TakenAnswers
  <2> QED
    BY <2>1, <2>2, <2>3
<1>2. /\ UNCHANGED <<sent, call, own, req>> /\ pc' \in {"send", "decide"}
      /\ Len(results') = Len(results) + 1
  BY <1>1 DEF Concludes
<1>3. PICK x \in Node :
        LET r == [name |-> Current, own |-> own, from |-> from, status |-> status, node |-> x] IN
        r \in Result /\ Longer(results, results', r)
  BY <1>1 DEF Concludes
<1>4. PICK r \in Result :
        /\ r = [name |-> Current, own |-> own, from |-> from, status |-> status, node |-> x]
        /\ Longer(results, results', r)
  BY <1>3
<1>5. r.name = Current /\ r.own = own /\ r.from = from /\ r.status = status
  BY <1>4
<1>6. ASSUME from = 0 \/ from \in Coming PROVE Adds(r)
  BY <1>4, <1>5, <1>6 DEF Adds, Longer, Position
<1>7. CASE /\ rep # << >> /\ from = rep[1].id /\ rep[1].kind # "record"
           /\ \E n \in 1 .. Len(rep) : Dropped(n)
           /\ status = "ok" => rep[1].kind = Current
           /\ status = "empty" => rep[1].kind = "ok"
  <2>1. from \in Coming /\ \A id \in Coming' : from < id
    BY <1>2, <1>7, Passed
  <2>2. from \in Nat /\ from > 0 /\ from <= Len(sent)
    BY <2>1, ComingIds
  <2>3. Answers(rep[1], sent)
    <3>1. 1 \in Position(rep)
      BY <1>0, <1>7, Elements DEF Typed, Position
    <3> QED
      BY <1>0, <3>1 DEF InOrder
  <2>4. Concluded(r)'
    BY <1>0, <1>2, <1>5, <1>7, <2>1, <2>2, <2>3 DEF Concluded, Answers
  <2> QED
    BY <1>0, <1>2, <1>6, <2>1, <2>4
<1>8. CASE status = "failed" /\ from = 0
  <2>1. \A id \in Coming' : id \in Coming
    <3>1. \E n \in 0 .. Len(rep) : Dropped(n)
      BY <1>0, QuietSteps DEF Typed, Quiet
    <3> QED
      BY <1>2, <3>1, DropsComing
  <2>2. \A id \in Coming' : 0 < id
    BY <2>1, ComingIds
  <2>3. Concluded(r)'
    BY <1>0, <1>2, <1>5, <1>8, <2>2 DEF Concluded
  <2> QED
    BY <1>0, <1>2, <1>6, <1>8, <2>3
<1> QED
  BY <1>1, <1>7, <1>8

LEMMA SeriesAdded ==
  ASSUME Ordered, Debts, Series, [Next]_vars, TakeAnswer \/ TakeResponse \/ QueryTimeout
  PROVE  Series'
<1>0. TypeOK /\ Typed /\ Len(results) \in Nat
      /\ \A k \in Position(results) : results[k] \in Result /\ k \in Nat
  BY Elements DEF Ordered, Typed
<1>1. /\ pc = "await" /\ own = Len(sent) /\ own > 0 /\ UNCHANGED <<sent, call, own, req>>
      /\ pc' \in {"send", "decide"}
  BY ResultAdded
<1>2. PICK r \in Result : Adds(r) /\ Concluded(r)'
  BY ResultAdded
<1> DEFINE n == Len(results) + 1
<1>3. /\ Len(results') = n /\ results'[n] = r /\ r.name = call.names[n] /\ r.own = own
      /\ \A k \in Position(results) : results'[k] = results[k]
      /\ r.from = 0 \/ r.from \in Coming
  BY <1>2 DEF Adds, Current
<1>4. \A k \in Position(results') : k \in Nat /\ (k \in Position(results) \/ k = n)
  BY <1>0, <1>3 DEF Position
<1>5. \A k \in Position(results') : (Concluded(results[k]) /\ results[k].name = call.names[k])'
  <2> SUFFICES ASSUME NEW k \in Position(results')
               PROVE  (Concluded(results[k]) /\ results[k].name = call.names[k])'
    OBVIOUS
  <2>1. PICK q \in Result : q = results'[k] /\ Concluded(q)' /\ q.name = call.names[k]
    <3>1. CASE k \in Position(results)
      <4>1. PICK q \in Result : q = results[k]
        BY <1>0, <3>1
      <4>2. Concluded(q) /\ q.name = call.names[k]
        BY <3>1, <4>1 DEF Series
      <4>3. Concluded(q)'
        BY <4>2, ConcludedStays
      <4> QED
        BY <1>3, <3>1, <4>1, <4>2, <4>3
    <3>2. CASE k = n
      BY <1>2, <1>3, <3>2
    <3> QED
      BY <1>4, <3>1, <3>2
  <2> QED
    BY <1>1, <2>1 DEF Concluded
<1>6. Consecutive'
  <2> SUFFICES ASSUME NEW k \in Position(results'), k + 1 \in Position(results')
               PROVE  results'[k + 1].own = results'[k].own + 1
    BY DEF Consecutive
  <2>1. k \in Position(results) /\ k \in Nat
    BY <1>0, <1>3, <1>4 DEF Position
  <2>2. CASE k + 1 \in Position(results)
    BY <1>3, <2>1, <2>2 DEF Series, Consecutive
  <2>3. CASE k + 1 = n
    <3>1. k = Len(results) /\ Len(results) > 0
      BY <1>0, <2>1, <2>3 DEF Position
    <3>2. results[k].own = Len(sent) - 1 /\ Len(sent) \in Nat
      BY <1>0, <1>1, <3>1, Elements DEF Series, LastResult
    <3> QED
      BY <1>1, <1>3, <2>1, <2>3, <3>2
  <2> QED
    BY <1>4, <2>2, <2>3
<1>7. Increasing'
  <2> SUFFICES ASSUME NEW l \in Position(results'), NEW k \in Position(results'),
                      l < k, results'[k].from > 0
               PROVE  results'[l].from < results'[k].from
    BY DEF Increasing
  <2>1. l \in Position(results)
    BY <1>0, <1>3, <1>4 DEF Position
  <2>2. CASE k \in Position(results)
    BY <1>3, <2>1, <2>2 DEF Series, Increasing
  <2>3. CASE k = n
    <3>1. r.from \in Coming
      BY <1>3, <2>3
    <3>2. results[l].from < r.from
      BY <2>1, <3>1 DEF Series, Concluded
    <3> QED
      BY <1>3, <2>1, <2>3, <3>2
  <2> QED
    BY <1>4, <2>2, <2>3
<1>8. LastResult'
  BY <1>1, <1>3 DEF LastResult
<1>9. pc' \notin {"history", "records"}
  BY <1>1
<1> QED
  BY <1>5, <1>6, <1>7, <1>8, <1>9 DEF Series

Settled == Ordered /\ Debts /\ Series

LEMMA SettledNext == Settled /\ [Next]_vars => Settled'
<1> SUFFICES ASSUME Settled, [Next]_vars PROVE Settled'
  OBVIOUS
<1>1. Ordered /\ Debts /\ Series
  BY DEF Settled
<1>2. Ordered'
  BY <1>1, TypedNext, LineSteps, OrderDrops, OrderSends, OrderAnswers, OrderRecords DEF Ordered
<1>3. Debts'
  BY <1>1, DebtsNext
<1>4. Series'
  BY <1>1, SeriesCases, SeriesDropped, SeriesKept, SeriesAdded
<1> QED
  BY <1>2, <1>3, <1>4 DEF Settled

LEMMA SettledInit == Init => Settled
<1> SUFFICES ASSUME Init PROVE Settled
  OBVIOUS
<1>1. Len(rep) = 0 /\ Len(req) = 0 /\ Len(sent) = 0 /\ Len(results) = 0 /\ pc = "idle"
  BY EmptySeq DEF Init
<1>2. Ordered
  BY <1>1, TypedInit DEF Ordered, InOrder, Position
<1>3. Debts
  BY <1>1 DEF Debts, Position, Ranges, RangeFrames, RangeRequests
<1>4. Series
  BY <1>1 DEF Series, Position, Consecutive, Increasing, LastResult
<1> QED
  BY <1>2, <1>3, <1>4 DEF Settled

LEMMA SettledInv == Spec => []Settled
BY SettledInit, SettledNext, PTL DEF Spec

-----------------------------------------------------------------------------
(* The lag. *)

\* Sizes of sets of requests.
LEMMA Sizes ==
  ASSUME NEW n \in Nat, NEW b, b \subseteq 1 .. n, NEW a, a \subseteq b
  PROVE  /\ Cardinality(a) \in Nat /\ Cardinality(b) \in Nat /\ Cardinality(a) <= Cardinality(b)
         /\ \A x \in b : x \notin a => Cardinality(a) + 1 <= Cardinality(b)
<1>1. IsFiniteSet(1 .. n)
  BY FS_Interval
<1>2. IsFiniteSet(b)
  BY <1>1, FS_Subset
<1>3. IsFiniteSet(a) /\ Cardinality(a) <= Cardinality(b)
  BY <1>2, FS_Subset
<1>4. Cardinality(a) \in Nat /\ Cardinality(b) \in Nat
  BY <1>2, <1>3, FS_CardinalityType
<1>5. ASSUME NEW x \in b, x \notin a PROVE Cardinality(a) + 1 <= Cardinality(b)
  <2>1. Cardinality(a \cup {x}) = Cardinality(a) + 1
    BY <1>3, <1>5, FS_AddElement
  <2>2. a \cup {x} \subseteq b
    OBVIOUS
  <2>3. Cardinality(a \cup {x}) <= Cardinality(b)
    BY <1>2, <2>2, FS_Subset
  <2> QED
    BY <2>1, <2>3
<1> QED
  BY <1>3, <1>4, <1>5

LEMMA NamedIn ==
  ASSUME Ordered, NEW name
  PROVE  /\ Named(name, abandoned) \subseteq 1 .. Len(sent) /\ Len(sent) \in Nat
         /\ \A id \in Coming : Named(name, id .. Len(sent)) \subseteq 1 .. Len(sent)
         /\ Cardinality(Named(name, abandoned)) \in Nat
         /\ Allowed(name) \in Nat /\ Cardinality(Named(name, abandoned)) <= Allowed(name)
<1>1. abandoned \subseteq 1 .. Len(sent) /\ Len(sent) \in Nat
  BY Elements DEF Ordered, Typed, TypeOK
<1>2. Named(name, abandoned) \subseteq 1 .. Len(sent)
  BY <1>1 DEF Named
<1>3. Cardinality(Named(name, abandoned)) \in Nat
  BY <1>1, <1>2, Sizes
<1>4. Allowed(name) \in Nat /\ Cardinality(Named(name, abandoned)) <= Allowed(name)
  BY <1>3 DEF Allowed
<1>5. ASSUME NEW id \in Coming PROVE Named(name, id .. Len(sent)) \subseteq 1 .. Len(sent)
  <2>1. id \in Nat /\ id > 0
    BY ComingIds
  <2> QED
    BY <1>1, <2>1 DEF Named
<1> QED
  BY <1>1, <1>2, <1>3, <1>4, <1>5

\* What a name may lag after a step.
LEMMA AllowedTypesNext ==
  Ordered' =>
    (\A name : /\ Allowed(name) \in Nat /\ Cardinality(Named(name, abandoned)) <= Allowed(name)
               /\ Cardinality(Named(name, abandoned)) \in Nat
               /\ Named(name, abandoned) \subseteq 1 .. Len(sent) /\ Len(sent) \in Nat)'
<1>1. Ordered =>
        \A name : /\ Allowed(name) \in Nat /\ Cardinality(Named(name, abandoned)) <= Allowed(name)
                  /\ Cardinality(Named(name, abandoned)) \in Nat
                  /\ Named(name, abandoned) \subseteq 1 .. Len(sent) /\ Len(sent) \in Nat
  BY NamedIn
<1> QED
  BY <1>1, PTL

\* A query is still awaited, or was given up, or the answer to it has come,
\* or that of an earlier one.
LEMMA QueryGoesOn ==
  ASSUME Ordered, [Next]_vars, pc = "await"
  PROVE  \/ pc' = "await" /\ UNCHANGED <<results, call>>
         \/ own \in abandoned'
         \/ Coming' = {}
         \/ TakeAnswer
<1>0. Typed /\ own = Len(sent) /\ Len(sent) \in Nat /\ own > 0
  BY Elements DEF Ordered, Typed, Stages, Awaiting
<1>1. CASE Disconnect \/ Raise
  BY <1>1 DEF Disconnect, Raise, Awaiting
<1>2. CASE QueryTimeout
  BY <1>0, <1>2 DEF QueryTimeout, Forsake
<1>3. CASE TakeResponse
  <2>1. CASE own \in abandoned'
    BY <2>1
  <2>2. CASE own \notin abandoned'
    <3>1. /\ rep # << >> /\ rep[1].kind \in Response /\ Forsake(rep[1].id)
          /\ \E n \in 1 .. Len(rep) : Dropped(n)
      BY <1>0, <1>3, TakenAnswers
    <3>2. req' = req /\ sent' = sent
      BY <1>3 DEF TakeResponse, Conclude
    <3>3. rep[1].id = own /\ rep[1].kind # "record"
      BY <2>2, <3>1 DEF Forsake, Response
    <3>4. \A id \in Coming' : own < id
      BY <3>1, <3>2, <3>3, Passed
    <3>5. \A id \in Coming' : id \in Coming
      <4>1. Len(rep) \in Nat
        BY Elements DEF Ordered, Typed
      <4> QED
        BY <3>1, <3>2, <4>1, DropsComing
    <3>6. \A id \in Coming' : FALSE
      BY <1>0, <3>4, <3>5, ComingIds
    <3> QED
      BY <3>6
  <2> QED
    BY <2>1, <2>2
<1>4. CASE NodeStep \/ UNCHANGED vars \/ SkipFrame
  BY <1>4 DEF NodeStep, vars, SkipFrame
<1> QED
  BY <1>1, <1>2, <1>3, <1>4 DEF Next, HostStep, Begin, AbandonedWrite, Open, SendQuery,
     Decide, SendHistory, TakeRecord, SkipOther, Complete, OtherResponse, Limit, OtherNode,
     HistoryTimeout, Receives

\* Nothing but an answer takes away from what a name may lag.
LEMMA AllowedKept ==
  ASSUME Ordered, Ordered', [Next]_vars, sent' = sent, NEW name \in Name,
         pc = "await" /\ Current = name =>
           \/ pc' = "await" /\ UNCHANGED <<results, call>>
           \/ own \in abandoned'
  PROVE  Allowed(name) <= Allowed(name)'
<1>1. /\ Named(name, abandoned)' \subseteq 1 .. Len(sent) /\ Len(sent) \in Nat
      /\ Allowed(name)' \in Nat /\ Cardinality(Named(name, abandoned))' <= Allowed(name)'
      /\ Cardinality(Named(name, abandoned))' \in Nat
  BY AllowedTypesNext
<1>2. Named(name, abandoned) \subseteq Named(name, abandoned)'
  BY Growth DEF Named
<1>3. /\ Cardinality(Named(name, abandoned)) \in Nat
      /\ Cardinality(Named(name, abandoned)) <= Cardinality(Named(name, abandoned))'
      /\ \A x \in Named(name, abandoned)' : x \notin Named(name, abandoned) =>
           Cardinality(Named(name, abandoned)) + 1 <= Cardinality(Named(name, abandoned))'
  BY <1>1, <1>2, Sizes
<1>4. CASE ~ (pc = "await" /\ Current = name)
  BY <1>1, <1>3, <1>4 DEF Allowed
<1>5. CASE pc = "await" /\ Current = name /\ own \in abandoned'
  <2>1. own \in Named(name, abandoned)' /\ own \notin Named(name, abandoned)
    BY <1>5 DEF Named, Ordered, Typed, Stages, Awaiting
  <2>2. Cardinality(Named(name, abandoned)) + 1 <= Cardinality(Named(name, abandoned))'
    BY <1>3, <2>1
  <2> QED
    BY <1>1, <1>3, <1>5, <2>2 DEF Allowed
<1>6. CASE pc = "await" /\ Current = name /\ pc' = "await" /\ UNCHANGED <<results, call>>
  BY <1>1, <1>3, <1>6 DEF Allowed, Current
<1> QED
  BY <1>4, <1>5, <1>6

LEMMA LagQuiet ==
  ASSUME Ordered, Ordered', Lag, [Next]_vars, sent' = sent, Coming' \subseteq Coming, ~ TakeAnswer
  PROVE  Lag'
<1> SUFFICES ASSUME NEW name \in Name, NEW id \in Coming'
             PROVE  (Cardinality(Named(name, id .. Len(sent))) <= Allowed(name))'
  BY DEF Lag
<1>1. Cardinality(Named(name, id .. Len(sent))) <= Allowed(name)
  BY DEF Lag
<1>2. Allowed(name) <= Allowed(name)'
  BY QueryGoesOn, AllowedKept
<1>3. Named(name, id .. Len(sent))' = Named(name, id .. Len(sent))
  BY DEF Named
<1>4. /\ Allowed(name) \in Nat /\ Allowed(name)' \in Nat
      /\ Cardinality(Named(name, id .. Len(sent))) \in Nat
  <2>1. (Allowed(name) \in Nat)'
    BY AllowedTypesNext
  <2>2. Cardinality(Named(name, id .. Len(sent))) \in Nat
    BY NamedIn, Sizes
  <2> QED
    BY <2>1, <2>2, NamedIn
<1> QED
  BY <1>1, <1>2, <1>3, <1>4

LEMMA LagAnswered ==
  ASSUME Ordered, Ordered', Lag, [Next]_vars, TakeAnswer
  PROVE  Lag'
<1>0. Typed /\ InOrder /\ pc = "await" /\ Current \in Name
  BY CurrentIsName DEF Ordered, TakeAnswer
<1>1. /\ rep # << >> /\ rep[1].kind = Current /\ abandoned' = abandoned
      /\ \E n \in 1 .. Len(rep) : Dropped(n)
      /\ \E s \in {"ok", "failed"} : Concludes(s, rep[1].id)
  BY <1>0, TakenAnswers
<1>2. sent' = sent /\ req' = req /\ pc' \in {"send", "decide"}
  BY <1>1 DEF Concludes
<1> DEFINE f == rep[1].id
<1>3. f \in Coming /\ \A id \in Coming' : f < id
  BY <1>0, <1>1, <1>2, NameFacts, Passed
<1>4. sent[f] = Current
  <2>1. 1 \in Position(rep)
    BY <1>0, <1>1, Elements DEF Typed, Position
  <2> QED
    BY <1>0, <1>1, <2>1 DEF InOrder, Answers
<1>5. Coming' \subseteq Coming
  <2>1. Len(rep) \in Nat
    BY <1>0, Elements DEF Typed
  <2> QED
    BY <1>1, <1>2, <2>1, DropsComing
<1> SUFFICES ASSUME NEW name \in Name, NEW id \in Coming'
             PROVE  (Cardinality(Named(name, id .. Len(sent))) <= Allowed(name))'
  BY DEF Lag
<1>6. /\ Named(name, id .. Len(sent))' = Named(name, id .. Len(sent))
      /\ Named(name, abandoned)' = Named(name, abandoned)
  BY <1>1, <1>2 DEF Named
<1>7. Allowed(name)' = Cardinality(Named(name, abandoned))
  <2>1. Cardinality(Named(name, abandoned)) \in Nat
    BY NamedIn
  <2> QED
    BY <1>2, <1>6, <2>1 DEF Allowed
<1>8. /\ Cardinality(Named(name, abandoned)) \in Nat
      /\ Cardinality(Named(name, id .. Len(sent))) \in Nat
  BY <1>5, NamedIn, Sizes
<1>9. CASE name = Current
  <2>1. f \in Nat /\ id \in Nat /\ f <= Len(sent) /\ f > 0 /\ f < id /\ Len(sent) \in Nat
    BY <1>3, <1>5, ComingIds, NamedIn
  <2>2. /\ Named(name, id .. Len(sent)) \subseteq Named(name, f .. Len(sent))
        /\ f \in Named(name, f .. Len(sent)) /\ f \notin Named(name, id .. Len(sent))
    BY <1>4, <1>9, <2>1 DEF Named
  <2>3. Cardinality(Named(name, id .. Len(sent))) + 1 <= Cardinality(Named(name, f .. Len(sent)))
    BY <1>3, <2>1, <2>2, NamedIn, Sizes
  <2>4. Cardinality(Named(name, f .. Len(sent))) <= Cardinality(Named(name, abandoned)) + 1
    BY <1>0, <1>3, <1>9 DEF Lag, Allowed
  <2>5. Cardinality(Named(name, f .. Len(sent))) \in Nat
    BY <1>3, NamedIn, Sizes
  <2> QED
    BY <1>6, <1>7, <1>8, <2>3, <2>4, <2>5
<1>10. CASE name # Current
  <2>1. Cardinality(Named(name, id .. Len(sent))) <= Allowed(name)
    BY <1>5 DEF Lag
  <2>2. Allowed(name) = Cardinality(Named(name, abandoned))
    BY <1>8, <1>10 DEF Allowed
  <2> QED
    BY <1>6, <1>7, <2>1, <2>2
<1> QED
  BY <1>9, <1>10

\* A request of a name makes room for itself; no other request counts for one.
LEMMA LagSends ==
  ASSUME Ordered, Ordered', Lag, [Next]_vars, rep' = rep,
         \/ AbandonedWrite /\ Sends("write")
         \/ SendHistory /\ Sends("history")
         \/ SendQuery /\ Sends(Current) /\ Current \in Name
  PROVE  Lag'
<1> SUFFICES ASSUME NEW name \in Name, NEW id \in Coming'
             PROVE  (Cardinality(Named(name, id .. Len(sent))) <= Allowed(name))'
  BY DEF Lag
<1>1. PICK kind \in Name \cup {"history", "write"} :
        /\ Sends(kind)
        /\ kind # name => ~ (SendQuery /\ Current = name)
        /\ kind = name => SendQuery /\ Current = name
  BY NameFacts DEF AbandonedWrite, SendHistory, SendQuery
<1> DEFINE n == Len(sent) + 1
<1>2. /\ Coming' \subseteq Coming \cup {n} /\ Len(sent') = n /\ Len(sent) \in Nat
      /\ \A q \in Position(sent) : sent'[q] = sent[q]
      /\ sent'[n] = kind
  BY <1>1, SendsComing
<1>3. Cardinality(Named(name, abandoned)) <= Cardinality(Named(name, abandoned))'
  <2>1. Named(name, abandoned) \subseteq Named(name, abandoned)'
    BY Growth, NamedIn DEF Named, Position
  <2>2. Named(name, abandoned)' \subseteq 1 .. n /\ n \in Nat
    BY <1>2, AllowedTypesNext
  <2> HIDE DEF n
  <2> QED
    BY <2>1, <2>2, Sizes
<1>4. /\ Cardinality(Named(name, abandoned)) \in Nat
      /\ Cardinality(Named(name, abandoned))' \in Nat
  BY NamedIn, AllowedTypesNext
<1>5. pc # "await" /\ (pc' = "await" <=> SendQuery) /\ (SendQuery => Current' = Current)
  BY DEF AbandonedWrite, SendHistory, SendQuery, Current
<1>6. /\ Allowed(name) = Cardinality(Named(name, abandoned))
      /\ kind = name => Allowed(name)' = Cardinality(Named(name, abandoned))' + 1
      /\ kind # name => Allowed(name)' = Cardinality(Named(name, abandoned))'
  BY <1>1, <1>4, <1>5 DEF Allowed
<1>7. CASE id \in Coming
  <2>1. id \in Nat /\ id > 0 /\ id <= Len(sent)
    BY <1>7, ComingIds
  <2>2. Named(name, id .. Len(sent))'
          = Named(name, id .. Len(sent)) \cup (IF kind = name THEN {n} ELSE {})
    <3>1. \A q \in id .. n : q = n \/ q \in id .. Len(sent)
      BY <1>2, <2>1
    <3>2. id .. Len(sent) \subseteq id .. n /\ n \in id .. n
      BY <1>2, <2>1
    <3>3. \A q \in id .. Len(sent) : sent'[q] = sent[q]
      BY <1>2, <2>1 DEF Position
    <3> HIDE DEF n
    <3> QED
      BY <1>2, <3>1, <3>2, <3>3 DEF Named
  <2>3. /\ Named(name, id .. Len(sent)) \subseteq 1 .. Len(sent)
        /\ IsFiniteSet(Named(name, id .. Len(sent)))
    <3>1. Named(name, id .. Len(sent)) \subseteq 1 .. Len(sent)
      BY <1>7, NamedIn
    <3>2. IsFiniteSet(1 .. Len(sent))
      BY <1>2, FS_Interval
    <3> QED
      BY <3>1, <3>2, FS_Subset
  <2>4. Cardinality(Named(name, id .. Len(sent)) \cup {n})
          = Cardinality(Named(name, id .. Len(sent))) + 1
    <3>1. n \notin 1 .. Len(sent)
      BY <1>2
    <3> HIDE DEF n
    <3> QED
      BY <2>3, <3>1, FS_AddElement
  <2>5. Cardinality(Named(name, id .. Len(sent))) <= Allowed(name)
    BY <1>7 DEF Lag
  <2>6. Cardinality(Named(name, id .. Len(sent))) \in Nat
    BY <2>3, FS_CardinalityType
  <2>7. CASE kind = name
    <3>1. Cardinality(Named(name, id .. Len(sent)))'
            = Cardinality(Named(name, id .. Len(sent))) + 1
      BY <2>2, <2>4, <2>7
    <3> HIDE DEF n
    <3> QED
      BY <1>3, <1>4, <1>6, <2>5, <2>6, <2>7, <3>1
  <2>8. CASE kind # name
    <3>1. Cardinality(Named(name, id .. Len(sent)))' = Cardinality(Named(name, id .. Len(sent)))
      BY <2>2, <2>8
    <3> HIDE DEF n
    <3> QED
      BY <1>3, <1>4, <1>6, <2>5, <2>6, <2>8, <3>1
  <2> QED
    BY <2>7, <2>8
<1>8. CASE id = n
  <2>1. id .. Len(sent') = {n}
    BY <1>2, <1>8
  <2>2. Named(name, id .. Len(sent))' = IF kind = name THEN {n} ELSE {}
    BY <1>2, <2>1 DEF Named
  <2>3. Cardinality({n}) = 1 /\ Cardinality({}) = 0
    <3>1. Cardinality({}) = 0
      BY FS_EmptySet
    <3> QED
      BY <3>1, FS_Singleton
  <2> QED
    BY <1>4, <1>6, <2>2, <2>3
<1> QED
  BY <1>2, <1>7, <1>8

LEMMA LagNext == Settled /\ Settled' /\ Lag /\ [Next]_vars => Lag'
<1> SUFFICES ASSUME Settled, Settled', Lag, [Next]_vars PROVE Lag'
  OBVIOUS
<1>1. Ordered /\ Ordered'
  BY DEF Settled
<1>2. CASE TakeAnswer
  BY <1>1, <1>2, LagAnswered
<1>3. CASE ~ TakeAnswer /\ Coming' \subseteq Coming /\ sent' = sent
  BY <1>1, <1>3, LagQuiet
<1>4. CASE rep' = rep /\ \/ AbandonedWrite /\ Sends("write")
                         \/ SendHistory /\ Sends("history")
                         \/ SendQuery /\ Sends(Current) /\ Current \in Name
  BY <1>1, <1>4, LagSends
<1> QED
  BY <1>1, <1>2, <1>3, <1>4, LineCases

\* A result lags by no more than was abandoned when it was taken.
Lagging(r) ==
  r.status = "ok" =>
    Cardinality(OfName(r, r.from + 1 .. r.own)) <= Cardinality(OfName(r, abandoned \cap 1 .. r.own))

LEMMA LaggingStays ==
  ASSUME Ordered, [Next]_vars, NEW r \in Result, Concluded(r), Lagging(r) PROVE Lagging(r)'
<1> SUFFICES ASSUME r.status = "ok" PROVE Lagging(r)'
  BY DEF Lagging
<1>1. r.own \in Nat /\ r.own > 0 /\ r.from \in Nat /\ r.own <= Len(sent) /\ Len(sent) \in Nat
  BY ResultTypes, Growth DEF Concluded
<1>2. \A q \in 1 .. r.own : sent'[q] = sent[q]
  BY <1>1, Growth DEF Position
<1>3. r.from + 1 .. r.own \subseteq 1 .. r.own
  BY <1>1
<1>4. OfName(r, r.from + 1 .. r.own)' = OfName(r, r.from + 1 .. r.own)
  BY <1>2, <1>3 DEF OfName
<1> DEFINE a == OfName(r, abandoned \cap 1 .. r.own)
           b == OfName(r, abandoned \cap 1 .. r.own)'
<1>5. a \subseteq b /\ b \subseteq 1 .. r.own
  BY <1>2, Growth DEF OfName
<1> HIDE DEF a, b
<1>6. Cardinality(a) \in Nat /\ Cardinality(b) \in Nat /\ Cardinality(a) <= Cardinality(b)
  BY <1>1, <1>5, Sizes
<1>7. Cardinality(OfName(r, r.from + 1 .. r.own)) \in Nat
  <2>1. OfName(r, r.from + 1 .. r.own) \subseteq 1 .. r.own
    BY <1>3 DEF OfName
  <2> QED
    BY <1>1, <2>1, Sizes
<1> QED
  BY <1>4, <1>6, <1>7 DEF Lagging, a, b

\* What was taken was still coming, so the answers behind it are as many as
\* its name was allowed to lag, less its own.
LEMMA LaggingAdded ==
  ASSUME Settled, Lag, [Next]_vars, NEW r \in Result, Adds(r), Concluded(r)',
         pc = "await", own = Len(sent), sent' = sent
  PROVE  Lagging(r)'
<1> SUFFICES ASSUME r.status = "ok" PROVE Lagging(r)'
  BY DEF Lagging
<1>0. Ordered /\ Typed /\ Current \in Name
  BY CurrentIsName DEF Settled, Ordered
<1>1. /\ r.own = Len(sent) /\ r.name = Current /\ r.own \in Nat /\ r.from \in Nat
      /\ r.from > 0 /\ sent[r.from] = r.name /\ r.from \in Coming /\ r.from <= r.own
  BY ResultTypes DEF Adds, Concluded
<1>2. abandoned \subseteq 1 .. r.own
  BY <1>0, <1>1 DEF Typed, TypeOK
<1> DEFINE a == Named(r.name, abandoned)
           b == OfName(r, abandoned \cap 1 .. r.own)'
           c == OfName(r, r.from + 1 .. r.own)
           d == Named(r.name, r.from .. Len(sent))
<1>3. a \subseteq b /\ b \subseteq 1 .. r.own
  BY <1>0, <1>2, Growth DEF OfName, Named
<1>4. c \subseteq d /\ r.from \in d /\ r.from \notin c /\ d \subseteq 1 .. r.own
  BY <1>1 DEF OfName, Named
<1>5. Cardinality(d) <= Cardinality(a) + 1
  BY <1>0, <1>1 DEF Lag, Allowed
<1>6. OfName(r, r.from + 1 .. r.own)' = c
  BY DEF OfName
<1> HIDE DEF a, b, c, d
<1>7. Cardinality(c) + 1 <= Cardinality(d) /\ Cardinality(c) \in Nat /\ Cardinality(d) \in Nat
  BY <1>1, <1>4, Sizes
<1>8. Cardinality(a) <= Cardinality(b) /\ Cardinality(a) \in Nat /\ Cardinality(b) \in Nat
  BY <1>1, <1>3, Sizes
<1> QED
  BY <1>5, <1>6, <1>7, <1>8 DEF Lagging, b

\* The results of the series, each no further behind than was abandoned.
Lags == Lag /\ \A k \in Position(results) : Lagging(results[k])

LEMMA LagsNext == Settled /\ Settled' /\ Lags /\ [Next]_vars => Lags'
<1> SUFFICES ASSUME Settled, Settled', Lags, [Next]_vars PROVE Lags'
  OBVIOUS
<1>0. /\ Ordered /\ Debts /\ Series /\ Lag /\ Len(results) \in Nat
      /\ \A k \in Position(results) : results[k] \in Result
  BY Elements DEF Settled, Lags, Ordered, Typed
<1>1. Lag'
  BY <1>0, LagNext
<1>2. \A k \in Position(results) : \E q \in Result : q = results[k] /\ Lagging(q)'
  <2> SUFFICES ASSUME NEW k \in Position(results)
               PROVE  \E q \in Result : q = results[k] /\ Lagging(q)'
    OBVIOUS
  <2>1. PICK q \in Result : q = results[k]
    BY <1>0
  <2>2. Concluded(q) /\ Lagging(q)
    BY <1>0, <2>1 DEF Series, Lags
  <2> QED
    BY <1>0, <2>1, <2>2, LaggingStays
<1>3. \A k \in Position(results') : \E q \in Result : q = results'[k] /\ Lagging(q)'
  <2>1. CASE Len(results') = 0
    BY <2>1 DEF Position
  <2>2. CASE results' = results
    BY <1>2, <2>2
  <2>3. CASE TakeAnswer \/ TakeResponse \/ QueryTimeout
    <3>1. /\ pc = "await" /\ own = Len(sent) /\ sent' = sent
          /\ \E r \in Result : Adds(r) /\ Concluded(r)'
      BY <1>0, <2>3, ResultAdded
    <3>2. PICK r \in Result : Adds(r) /\ Concluded(r)'
      BY <3>1
    <3>3. Lagging(r)'
      BY <1>0, <3>1, <3>2, LaggingAdded
    <3>4. \A k \in Position(results') :
            \/ k \in Position(results) /\ results'[k] = results[k]
            \/ results'[k] = r
      BY <1>0, <3>2 DEF Adds, Position
    <3> QED
      BY <1>2, <3>3, <3>4
  <2> QED
    BY <1>0, <2>1, <2>2, <2>3, SeriesCases
<1>4. \A k \in Position(results') : Lagging(results[k])'
  BY <1>3 DEF Lagging, OfName
<1> QED
  BY <1>1, <1>4 DEF Lags

LEMMA LagsInit == Init => Lags
<1>1. Init => Len(rep) = 0 /\ Len(req) = 0 /\ Len(results) = 0
  BY EmptySeq DEF Init
<1>2. Init => Coming = {}
  BY <1>1 DEF Coming, Position
<1> QED
  BY <1>1, <1>2 DEF Lags, Lag, Position

LEMMA LagsInv == Spec => [](Settled /\ Lags)
BY SettledInit, SettledNext, LagsInit, LagsNext, PTL DEF Spec

\* However late the answers are, a series never takes one twice, and it lags
\* behind its requests by no more answers of a name than were abandoned.
THEOREM LagIsBounded == Spec => []LagBounded
<1>1. Settled /\ Lags => LagBounded
  <2> SUFFICES ASSUME Settled, Lags PROVE LagBounded
    OBVIOUS
  <2>0. /\ Ordered /\ Series /\ Len(results) \in Nat
        /\ \A k \in Position(results) : results[k] \in Result /\ k \in Nat
    BY Elements DEF Settled, Ordered, Typed
  <2> SUFFICES ASSUME NEW k \in 1 .. Len(results), results[k].status = "ok"
               PROVE  /\ sent[results[k].from] = results[k].name
                      /\ Cardinality(OfName(results[k], results[k].from + 1 .. results[k].own))
                           <= Cardinality(OfName(results[k], abandoned \cap 1 .. results[k].own))
                      /\ \A l \in 1 .. k - 1 : results[l].from < results[k].from
    BY DEF LagBounded
  <2>1. k \in Position(results) /\ k \in Nat
    BY <2>0 DEF Position
  <2>2. sent[results[k].from] = results[k].name /\ results[k].from > 0
    BY <2>0, <2>1 DEF Series, Concluded
  <2>3. Cardinality(OfName(results[k], results[k].from + 1 .. results[k].own))
          <= Cardinality(OfName(results[k], abandoned \cap 1 .. results[k].own))
    BY <2>1 DEF Lags, Lagging
  <2>4. \A l \in 1 .. k - 1 : l \in Position(results) /\ l < k
    BY <2>0, <2>1 DEF Position
  <2>5. \A l \in 1 .. k - 1 : results[l].from < results[k].from
    BY <2>0, <2>1, <2>2, <2>4 DEF Series, Increasing
  <2> QED
    BY <2>2, <2>3, <2>5
<1> QED
  BY <1>1, LagsInv, PTL

-----------------------------------------------------------------------------
(* Snapshots. *)

\* What a transaction that has ended leaves stays until the next one begins.
LEMMA EndedStays ==
  ASSUME Typed, [Next]_vars, outcome # "none"
  PROVE  \/ outcome' = "none"
         \/ /\ UNCHANGED <<call, pc, attempt, results, own, records, outcome, closed>>
            /\ NodeStep \/ AbandonedWrite \/ UNCHANGED vars
<1>1. pc = "idle"
  BY DEF Typed, Stages
<1>2. Begin \/ NodeStep \/ AbandonedWrite \/ UNCHANGED vars
  BY <1>1 DEF Next, HostStep, Open, Disconnect, Raise, SendQuery, TakeAnswer, TakeResponse,
     SkipFrame, QueryTimeout, Decide, SendHistory, TakeRecord, SkipOther, Complete,
     OtherResponse, Limit, OtherNode, HistoryTimeout, Receives
<1> QED
  BY <1>2 DEF Begin, NodeStep, AbandonedWrite, vars

LEMMA SnappedNext == Typed /\ Snapped /\ [Next]_vars => Snapped'
<1> SUFFICES ASSUME Typed, Snapped, [Next]_vars, outcome' = "snapshot" PROVE Snapped'
  BY DEF Snapped
<1>1. CASE outcome = "snapshot"
  <2>1. UNCHANGED <<call, results>>
    BY <1>1, EndedStays
  <2> QED
    BY <1>1, <2>1 DEF Snapped, Snapshot
<1>2. CASE outcome # "snapshot"
  <2>1. Decide
    BY <1>2, StopEffect DEF Next, HostStep, NodeStep, Begin, AbandonedWrite, vars, Open,
       Disconnect, Raise, SendQuery, TakeAnswer, TakeResponse, QueryTimeout, Conclude, SkipFrame,
       SendHistory, TakeRecord, SkipOther, Ends
  <2>2. /\ call.kind = "backup" /\ Snapshot /\ UNCHANGED <<call, results>>
    BY <1>2, <2>1 DEF Decide, Ends
  <2>3. Len(results) = Len(call.names)
    BY <2>1 DEF Decide, Typed, Stages
  <2> QED
    BY <2>2, <2>3 DEF Snapped, Snapshot
<1> QED
  BY <1>1, <1>2

\* What the code calls a snapshot is one answer for each of its names, of
\* requests sent one after the other on one connection, and each the answer of
\* its own request if no request was abandoned.
THEOREM SnapshotIsWhole == Spec => []SnapshotWhole
<1>1. Init => Snapped
  BY DEF Init, Snapped
<1>2. Settled => Typed
  BY DEF Settled, Ordered
<1>3. Settled /\ Lags /\ Snapped => SnapshotWhole
  <2> SUFFICES ASSUME Settled, Lags, Snapped, outcome = "snapshot"
               PROVE  /\ [k \in 1 .. Len(results) |-> results[k].name] = BackupNames
                      /\ \A k \in 1 .. Len(results) - 1 : results[k + 1].own = results[k].own + 1
                      /\ abandoned = {} =>
                           \A k \in 1 .. Len(results) : results[k].from = results[k].own
    BY DEF SnapshotWhole
  <2>0. /\ TypeOK /\ Series /\ Debts /\ Len(results) \in Nat
        /\ \A k \in Position(results) : results[k] \in Result /\ k \in Nat
    BY Elements DEF Settled, Ordered, Typed
  <2>1. [k \in 1 .. Len(results) |-> results[k].name] = BackupNames
    <3>1. /\ call.names = BackupNames /\ Len(results) = Len(BackupNames)
          /\ BackupNames \in Seq(Name)
      BY <2>0, CallFacts DEF Snapped, TypeOK
    <3>2. BackupNames = [k \in 1 .. Len(results) |-> BackupNames[k]]
      BY <3>1
    <3>3. \A k \in 1 .. Len(results) : results[k].name = BackupNames[k]
      BY <2>0, <3>1 DEF Series, Position
    <3> QED
      BY <3>2, <3>3
  <2>2. \A k \in 1 .. Len(results) - 1 : results[k + 1].own = results[k].own + 1
    <3>1. \A k \in 1 .. Len(results) - 1 : k \in Position(results) /\ k + 1 \in Position(results)
      BY <2>0 DEF Position
    <3> QED
      BY <2>0, <3>1 DEF Series, Consecutive
  <2>3. ASSUME abandoned = {}, NEW k \in 1 .. Len(results)
        PROVE  results[k].from = results[k].own
    <3>1. PICK r \in Result : r = results[k]
      BY <2>0 DEF Position
    <3>2. Concluded(r) /\ Lagging(r) /\ r.status \in {"ok", "empty"}
      BY <2>0, <2>3, <3>1 DEF Series, Lags, Position, Snapped, Snapshot
    <3>3. r.own \in Nat /\ r.own > 0 /\ r.from \in Nat /\ r.from <= r.own
          /\ sent[r.own] = r.name /\ r.own <= Len(sent) /\ Len(sent) \in Nat
      BY <2>0, <3>2, ResultTypes, Elements DEF Concluded
    <3>4. r.status # "empty"
      <4>1. ASSUME r.status = "empty" PROVE FALSE
        <5>1. r.from > 0 /\ sent[r.from] = "write"
          BY <3>2, <4>1 DEF Concluded
        <5>2. r.from \in Position(sent)
          BY <3>3, <5>1 DEF Position
        <5> QED
          BY <2>0, <2>3, <5>1, <5>2 DEF Debts
      <4> QED
        BY <4>1
    <3>5. ASSUME r.from # r.own PROVE FALSE
      <4> DEFINE c == OfName(r, r.from + 1 .. r.own)
      <4>1. c \subseteq 1 .. r.own /\ r.own \in c
        BY <3>3, <3>5 DEF OfName
      <4>2. OfName(r, abandoned \cap 1 .. r.own) = {}
        BY <2>3 DEF OfName
      <4>3. Cardinality(c) <= Cardinality({})
        BY <3>2, <3>4, <4>2 DEF Lagging
      <4>4. Cardinality({}) = 0
        BY FS_EmptySet
      <4> HIDE DEF c
      <4>5. Cardinality({}) + 1 <= Cardinality(c) /\ Cardinality(c) \in Nat
        BY <3>3, <4>1, Sizes
      <4> QED
        BY <4>3, <4>4, <4>5
    <3> QED
      BY <3>1, <3>5
  <2> QED
    BY <2>1, <2>2, <2>3
<1> QED
  BY <1>1, <1>2, <1>3, LagsInv, SnappedNext, PTL DEF Spec

-----------------------------------------------------------------------------
(* The records of a range. *)

\* A connection starts without records.
Fetching == pc \in {"send", "await", "decide", "history"} => Len(records) = 0

LEMMA FetchingNext == Typed /\ Fetching /\ [Next]_vars => Fetching'
<1> SUFFICES ASSUME Typed, Fetching, [Next]_vars PROVE Fetching'
  OBVIOUS
<1>1. CASE Open
  BY <1>1, EmptySeq DEF Open, Fetching
<1>2. CASE records' = records /\ pc \in {"send", "await", "decide", "history"}
  BY <1>2 DEF Fetching
<1>3. CASE pc' \in {"idle", "open", "records"}
  BY <1>3 DEF Fetching
<1>4. CASE records' = records /\ pc' = pc
  BY <1>4 DEF Fetching
<1>5. CASE Begin \/ AbandonedWrite \/ Disconnect \/ Raise \/ SendHistory
  BY <1>3, <1>5 DEF Begin, AbandonedWrite, Disconnect, Raise, SendHistory, Ends
<1>6. CASE Complete \/ OtherResponse \/ Limit \/ OtherNode \/ HistoryTimeout
  BY <1>3, <1>6, StopEffect
<1>7. CASE NodeStep \/ SkipFrame \/ SkipOther \/ UNCHANGED vars
  BY <1>4, <1>7 DEF NodeStep, SkipFrame, SkipOther, vars
<1>8. CASE SendQuery \/ TakeAnswer \/ TakeResponse \/ QueryTimeout
  BY <1>2, <1>8 DEF SendQuery, TakeAnswer, TakeResponse, QueryTimeout, Conclude
<1>9. CASE TakeRecord
  BY <1>3, <1>9 DEF TakeRecord, Receives
<1>10. CASE Decide
  BY <1>2, <1>3, <1>10 DEF Decide, Ends
<1> QED
  BY <1>1, <1>5, <1>6, <1>7, <1>8, <1>9, <1>10 DEF Next, HostStep

LEMMA RecordsSteps ==
  ASSUME Typed, [Next]_vars, pc' = "records"
  PROVE  \/ SendHistory
         \/ /\ pc = "records" /\ UNCHANGED <<own, results, abandoned, sent>>
            /\ NodeStep \/ TakeRecord \/ SkipOther \/ UNCHANGED vars
<1>1. ~ (Complete \/ OtherResponse \/ Limit \/ OtherNode \/ HistoryTimeout)
  BY StopEffect
<1>2. SendHistory \/ NodeStep \/ TakeRecord \/ SkipOther \/ UNCHANGED vars
  BY <1>1 DEF Next, HostStep, Begin, AbandonedWrite, Open, Disconnect, Raise, SendQuery,
     TakeAnswer, TakeResponse, QueryTimeout, Conclude, SkipFrame, Decide, Ends
<1> QED
  BY <1>2 DEF NodeStep, TakeRecord, SkipOther, Receives, vars, ghosts

\* Trust is lost and never gained while the series stands.
LEMMA TrustStays ==
  ASSUME Ordered, Ordered', [Next]_vars, results' = results, Trusted' PROVE Trusted
<1>1. abandoned \subseteq abandoned'
  BY Growth
<1>2. abandoned' \subseteq 1 .. Len(sent') /\ Len(sent') \in Nat
  BY Growth DEF Ordered, Typed, TypeOK
<1>3. /\ Cardinality(abandoned) <= Cardinality(abandoned')
      /\ Cardinality(abandoned) \in Nat /\ Cardinality(abandoned') \in Nat
  BY <1>1, <1>2, Sizes
<1> QED
  BY <1>3 DEF Trusted, Fresh

\* With the answer of its own identity query, or with an abandoned request
\* that is no history request, no older range is coming.
LEMMA NothingOlder ==
  ASSUME Settled, Lags, pc = "history", Trusted PROVE Ranges = {}
<1>0. /\ Ordered /\ Typed /\ TypeOK /\ InOrder /\ Series /\ Debts
      /\ Len(sent) \in Nat /\ abandoned \subseteq 1 .. Len(sent)
  BY Elements DEF Settled, Ordered, Typed, TypeOK
<1>1. Len(results) = 1 /\ 1 \in Position(results)
  <2>1. call.kind = "history" /\ Len(results) = Len(call.names)
    BY <1>0 DEF Typed, Stages
  <2>2. Len(results) = 1
    BY <1>0, <2>1, CallFacts DEF TypeOK
  <2> QED
    BY <2>2 DEF Position
<1>2. PICK r \in Result : r = results[1]
  BY <1>0, <1>1, Elements
<1>3. /\ Concluded(r) /\ Lagging(r) /\ r.own = Len(sent) /\ r.status \in {"ok", "empty"}
      /\ r.own \in Nat /\ r.own > 0 /\ r.from \in Nat /\ r.name \in Name
  BY <1>0, <1>1, <1>2, ResultTypes DEF Series, Lags, LastResult, StatusIn, Position
<1>4. CASE r.from = r.own
  <2>1. \A id \in Coming : FALSE
    BY <1>0, <1>3, <1>4, ComingIds DEF Concluded
  <2> QED
    BY <1>0, <2>1, ComingIds
<1>5. CASE r.from # r.own
  <2>1. \E a \in abandoned : sent[a] # "history"
    <3>1. CASE r.status = "empty"
      <4>1. r.from > 0 /\ r.from <= Len(sent) /\ sent[r.from] = "write"
        BY <1>3, <3>1 DEF Concluded
      <4>2. r.from \in Position(sent)
        BY <1>0, <1>3, <4>1 DEF Position
      <4> QED
        BY <1>0, <4>1, <4>2 DEF Debts
    <3>2. CASE r.status = "ok"
      <4> DEFINE c == OfName(r, r.from + 1 .. r.own)
                 d == OfName(r, abandoned \cap 1 .. r.own)
      <4>1. c \subseteq 1 .. r.own /\ r.own \in c /\ d \subseteq 1 .. r.own
        BY <1>3, <1>5 DEF OfName, Concluded
      <4>2. Cardinality(c) <= Cardinality(d)
        BY <1>3, <3>2 DEF Lagging
      <4>3. Cardinality({}) = 0
        BY FS_EmptySet
      <4>4. d # {}
        <5> HIDE DEF c, d
        <5>1. Cardinality({}) + 1 <= Cardinality(c) /\ Cardinality(c) \in Nat
          BY <1>3, <4>1, Sizes
        <5>2. d = {} => Cardinality(c) <= Cardinality({})
          BY <4>2
        <5> QED
          BY <4>3, <5>1, <5>2
      <4>5. \A q \in d : q \in abandoned /\ sent[q] # "history"
        BY <1>3, NameFacts DEF OfName
      <4> QED
        BY <4>4, <4>5
    <3> QED
      BY <1>3, <3>1, <3>2
  <2>2. PICK a \in abandoned : sent[a] # "history"
    BY <2>1
  <2>3. Cardinality(abandoned) <= 1
    BY <1>2, <1>5 DEF Trusted, Fresh
  <2>4. ASSUME NEW q \in abandoned, q # a PROVE FALSE
    <3>1. Cardinality({a}) = 1 /\ {a} \subseteq abandoned /\ q \notin {a}
      BY <2>4, FS_Singleton
    <3>2. Cardinality({a}) + 1 <= Cardinality(abandoned) /\ Cardinality(abandoned) \in Nat
      BY <1>0, <3>1, Sizes
    <3> QED
      BY <2>3, <3>1, <3>2
  <2>5. \A id \in Ranges : id \in abandoned /\ sent[id] = "history"
    BY <1>0 DEF Debts, Ranges, RangeFrames, RangeRequests, InOrder, Answers
  <2> QED
    BY <2>2, <2>4, <2>5
<1> QED
  BY <1>4, <1>5

\* The first frame of a range that is all there is.
LEMMA CollectedStarts ==
  ASSUME Settled, Lags, Fetching, [Next]_vars, SendHistory, Trusted'
  PROVE  Clean' /\ \E b \in 0 .. Len(rep') : NumberedFrom(b)'
<1>0. /\ Ordered /\ TypeOK /\ pc = "history" /\ Len(records) = 0
      /\ UNCHANGED <<rep, results, records, abandoned>> /\ own' = Len(sent')
      /\ Len(rep) \in Nat
  BY Elements DEF Settled, Ordered, Typed, Fetching, SendHistory
<1>1. Ranges = {}
  BY <1>0, NothingOlder DEF Trusted, Fresh
<1>2. Sends("history")
  BY <1>0, SendEffect DEF SendHistory
<1> DEFINE n == Len(sent) + 1
<1>3. Ranges' \subseteq {n} /\ own' = n /\ Len(sent) \in Nat
  BY <1>0, <1>1, <1>2, SendsComing
<1>4. Clean'
  <2>1. \A i \in 1 .. Len(records') : FALSE
    BY <1>0
  <2>2. Ranges' \subseteq {own'}
    BY <1>3
  <2> QED
    BY <2>1, <2>2 DEF Clean, Position
<1>5. \A i \in Position(rep) : rep[i].id \in Nat /\ rep[i].id < n
  BY <1>0, <1>3, Elements DEF Ordered, InOrder
<1>6. \A k \in Position(req) : req[k].id # n
  BY <1>0, <1>3, Elements DEF Ordered, InOrder
<1>7. \A k \in Position(req') : \/ k \in Position(req) /\ req'[k] = req[k]
                                \/ req'[k].id = n /\ req'[k].n = 0
  BY <1>2 DEF Sends, Longer, Position
<1>8. NumberedFrom(Len(rep))'
  <2>1. \A i \in 1 .. Len(rep') : rep'[i].id < own'
    BY <1>0, <1>3, <1>5 DEF Position
  <2>2. Len(rep') + 1 .. Len(rep') = {}
    BY <1>0
  <2>3. \A k \in Position(req') : req'[k].id = own' => req'[k].n = Len(records') + (Len(rep') - Len(rep'))
    BY <1>0, <1>3, <1>6, <1>7
  <2> QED
    BY <1>0, <2>1, <2>2, <2>3 DEF NumberedFrom
<1> QED
  BY <1>0, <1>4, <1>8

\* Frames of older requests go first.
LEMMA OldPassed ==
  ASSUME Ordered, NEW b \in 1 .. Len(rep), NumberedFrom(b), Dropped(1),
         UNCHANGED <<req, own, records>>
  PROVE  b - 1 \in 0 .. Len(rep') /\ NumberedFrom(b - 1)'
<1>0. /\ Len(rep) \in Nat /\ b \in Nat /\ b > 0 /\ b <= Len(rep) /\ Len(rep') = Len(rep) - 1
      /\ Len(records) \in Nat
      /\ \A i \in 1 .. Len(rep) - 1 : rep'[i] = rep[i + 1]
  BY Elements DEF Ordered, Typed, Dropped
<1>1. b - 1 \in 0 .. Len(rep')
  BY <1>0
<1>2. \A i \in 1 .. b - 1 : rep'[i].id < own'
  <2>1. \A i \in 1 .. b - 1 : i + 1 \in 1 .. b /\ i \in 1 .. Len(rep) - 1
    BY <1>0
  <2> QED
    BY <1>0, <2>1 DEF NumberedFrom
<1>3. \A i \in (b - 1) + 1 .. Len(rep') :
        rep'[i].id = own' /\ rep'[i].n = Len(records') + (i - (b - 1) - 1)
  <2> SUFFICES ASSUME NEW i \in (b - 1) + 1 .. Len(rep')
               PROVE  rep'[i].id = own' /\ rep'[i].n = Len(records') + (i - (b - 1) - 1)
    OBVIOUS
  <2>1. i \in Nat /\ i + 1 \in b + 1 .. Len(rep) /\ i \in 1 .. Len(rep) - 1
        /\ (i + 1) - b - 1 = i - (b - 1) - 1
    BY <1>0
  <2>2. rep[i + 1].id = own /\ rep[i + 1].n = Len(records) + ((i + 1) - b - 1)
    BY <2>1 DEF NumberedFrom
  <2>3. rep'[i] = rep[i + 1]
    BY <1>0, <2>1
  <2> QED
    BY <2>1, <2>2, <2>3
<1>4. Len(rep) - b = Len(rep') - (b - 1)
  BY <1>0
<1>5. \A k \in Position(req') :
        req'[k].id = own' => req'[k].n = Len(records') + (Len(rep') - (b - 1))
  BY <1>4 DEF NumberedFrom
<1> QED
  BY <1>1, <1>2, <1>3, <1>5 DEF NumberedFrom

\* The line of the awaited range, from its head.
LEMMA HeadNumber ==
  ASSUME Ordered, rep # << >>, NEW b \in 0 .. Len(rep), NumberedFrom(b)
  PROVE  /\ b = 0 => rep[1].id = own /\ rep[1].n = Len(records)
         /\ b > 0 => rep[1].id < own /\ b \in 1 .. Len(rep)
<1>1. Len(rep) \in Nat /\ Len(rep) > 0 /\ Len(records) \in Nat
  BY Elements DEF Ordered, Typed
<1>2. CASE b = 0
  <2>1. 1 \in b + 1 .. Len(rep) /\ 1 - b - 1 = 0
    BY <1>1, <1>2
  <2> QED
    BY <1>1, <1>2, <2>1 DEF NumberedFrom
<1>3. CASE b > 0
  BY <1>1, <1>3 DEF NumberedFrom
<1> QED
  BY <1>1, <1>2, <1>3

\* A frame that is lost takes its number away, unless that loss is noted.
LEMMA NumberedLose ==
  ASSUME Ordered, pc = "records", Lose /\ NodeStep, NEW b \in 0 .. Len(rep), NumberedFrom(b), ~ lost'
  PROVE  \E c \in 0 .. Len(rep') : NumberedFrom(c)'
<1>0. /\ Typed /\ rep \in Seq(Frame) /\ own = Len(sent) /\ Len(sent) \in Nat
      /\ UNCHANGED <<req, own, records, sent>> /\ rep # << >>
  BY Elements DEF Ordered, Typed, TypeOK, Stages, Awaiting, Lose, NodeStep
<1>1. Dropped(1) /\ Len(rep) > 0 /\ Len(rep) \in Nat
  BY <1>0, Drops, LenProperties DEF Lose
<1>2. CASE b > 0
  <2>1. b \in 1 .. Len(rep)
    BY <1>2
  <2> QED
    BY <1>0, <1>1, <2>1, OldPassed
<1>3. CASE b = 0
  <2>1. rep[1].id = own
    BY <1>0, <1>3, HeadNumber
  <2>2. rep[1].kind # "record"
    BY <1>0, <2>1, Elements DEF Lose, Typed
  <2>3. \A id \in Coming' : own < id
    <3>1. 1 \in 1 .. Len(rep)
      BY <1>1
    <3> QED
      BY <1>0, <1>1, <2>1, <2>2, <3>1, Passed
  <2>4. Coming' \subseteq Coming
    <3>1. 1 \in 0 .. Len(rep)
      BY <1>1
    <3> QED
      BY <1>0, <1>1, <3>1, DropsComing
  <2>5. \A id \in Coming' : FALSE
    BY <1>0, <2>3, <2>4, ComingIds
  <2>6. \A i \in Position(rep') : FALSE
    BY <2>5 DEF Coming
  <2>7. \A k \in Position(req') : FALSE
    BY <2>5 DEF Coming
  <2>8. Len(rep') = 0 /\ 0 \in 0 .. Len(rep')
    <3>1. Len(rep') \in Nat /\ (Len(rep') > 0 => 1 \in Position(rep'))
      BY <1>1 DEF Dropped, Position
    <3> QED
      BY <2>6, <3>1
  <2>9. NumberedFrom(0)'
    BY <2>7, <2>8 DEF NumberedFrom
  <2> QED
    BY <2>8, <2>9
<1> QED
  BY <1>2, <1>3

\* The node numbers the frames of a range as it sends them.
LEMMA NumberedServe ==
  ASSUME Ordered, pc = "records", Serve /\ NodeStep, NEW b \in 0 .. Len(rep), NumberedFrom(b)
  PROVE  \E c \in 0 .. Len(rep') : NumberedFrom(c)'
<1>0. /\ Typed /\ InOrder /\ TypeOK /\ own = Len(sent) /\ Len(sent) \in Nat
      /\ UNCHANGED <<own, records, sent>> /\ Len(records) \in Nat
  BY Elements DEF Ordered, Typed, Stages, Awaiting, NodeStep
<1>1. PICK kind \in Name \cup Response : Answered(kind)
  BY <1>0, ServeEffect
<1>2. /\ 1 \in Position(req) /\ req[1] \in Request /\ req[1].id \in Nat /\ req[1].id <= own
      /\ \A i \in Position(rep) : Before(rep[i], req[1].id)
      /\ \A k \in Position(req) : k # 1 => req[1].id < req[k].id
  BY <1>0, <1>1, FirstRequest DEF Answered
<1>3. /\ Len(rep') = Len(rep) + 1 /\ Len(rep) \in Nat
      /\ \A i \in Position(rep') : i \in Nat /\
           \/ i \in Position(rep) /\ rep'[i] = rep[i]
           \/ i = Len(rep) + 1 /\ rep'[i].id = req[1].id /\ rep'[i].n = req[1].n
  BY <1>0, <1>1, <1>2, Emitted DEF Answered
<1>4. \A k \in Position(req') : k + 1 \in Position(req) /\ k + 1 # 1 /\ req'[k] = req[k + 1]
  BY <1>1 DEF Answered, Shorter, Position
<1>5. b \in Nat /\ b <= Len(rep)
  BY <1>3
<1>6. CASE req[1].id = own
  <2>1. req[1].n = Len(records) + (Len(rep) - b)
    BY <1>2, <1>6 DEF NumberedFrom
  <2>2. \A i \in 1 .. b : rep'[i].id < own
    BY <1>3, <1>5 DEF NumberedFrom, Position
  <2>3. \A i \in b + 1 .. Len(rep') : rep'[i].id = own /\ rep'[i].n = Len(records) + (i - b - 1)
    <3> SUFFICES ASSUME NEW i \in b + 1 .. Len(rep')
                 PROVE  rep'[i].id = own /\ rep'[i].n = Len(records) + (i - b - 1)
      OBVIOUS
    <3>1. i \in Nat /\ i \in Position(rep') /\ b + 1 <= i
      BY <1>3, <1>5 DEF Position
    <3>2. CASE i \in Position(rep) /\ rep'[i] = rep[i]
      <4>1. i \in b + 1 .. Len(rep)
        BY <1>3, <1>5, <3>1, <3>2 DEF Position
      <4> QED
        BY <3>2, <4>1 DEF NumberedFrom
    <3>3. CASE i = Len(rep) + 1 /\ rep'[i].id = req[1].id /\ rep'[i].n = req[1].n
      <4>1. Len(rep) - b = i - b - 1
        BY <1>3, <1>5, <3>3
      <4> QED
        BY <1>6, <2>1, <3>3, <4>1
    <3> QED
      BY <1>3, <3>1, <3>2, <3>3
  <2>4. \A k \in Position(req') : req'[k].id # own
    <3>1. \A k \in Position(req) : req[k].id \in Nat /\ req[k].id <= own
      BY <1>0, Elements DEF InOrder
    <3> QED
      BY <1>0, <1>2, <1>4, <1>6, <3>1
  <2>5. NumberedFrom(b)'
    BY <1>0, <2>2, <2>3, <2>4 DEF NumberedFrom
  <2>6. b \in 0 .. Len(rep')
    BY <1>3, <1>5
  <2> QED
    BY <2>5, <2>6
<1>7. CASE req[1].id # own
  <2>1. \A i \in Position(rep) : rep[i].id \in Nat /\ rep[i].id < own
    <3>1. \A i \in Position(rep) : rep[i].id \in Nat
      BY <1>0, Elements
    <3>2. own \in Nat
      BY <1>0
    <3> QED
      BY <1>2, <1>7, <3>1, <3>2 DEF Before
  <2>2. b = Len(rep)
    <3>1. b < Len(rep) => b + 1 \in b + 1 .. Len(rep) /\ b + 1 \in Position(rep)
      BY <1>3, <1>5 DEF Position
    <3> QED
      BY <1>3, <1>5, <2>1, <3>1 DEF NumberedFrom
  <2>3. PICK c \in Nat : c = Len(rep) + 1
    BY <1>3
  <2>4. \A i \in 1 .. c : rep'[i].id < own
    BY <1>0, <1>2, <1>3, <1>7, <2>1, <2>3 DEF Position
  <2>5. c + 1 .. Len(rep') = {} /\ c \in 0 .. Len(rep') /\ Len(rep') - c = 0 /\ Len(rep) - b = 0
    BY <1>3, <2>2, <2>3
  <2>6. \A k \in Position(req') : req'[k].id = own => req'[k].n = Len(records) + (Len(rep') - c)
    BY <1>4, <2>5 DEF NumberedFrom
  <2>7. NumberedFrom(c)'
    BY <1>0, <2>4, <2>5, <2>6 DEF NumberedFrom
  <2> QED
    BY <2>5, <2>7
<1> QED
  BY <1>6, <1>7

LEMMA NumberedRecord ==
  ASSUME Ordered, pc = "records", Ranges \subseteq {own}, SendRecord /\ NodeStep,
         NEW b \in 0 .. Len(rep), NumberedFrom(b)
  PROVE  \E c \in 0 .. Len(rep') : NumberedFrom(c)'
<1>0. /\ Typed /\ InOrder /\ TypeOK /\ own = Len(sent) /\ Len(sent) \in Nat
      /\ UNCHANGED <<own, records, sent>> /\ Len(records) \in Nat
  BY Elements DEF Ordered, Typed, Stages, Awaiting, NodeStep
<1>1. Recorded
  BY <1>0, RecordEffect
<1>2. /\ 1 \in Position(req) /\ req[1] \in Request /\ req[1].id \in Nat /\ req[1].n \in Nat
      /\ \A k \in Position(req) : k # 1 => req[1].id < req[k].id
  BY <1>0, <1>1, FirstRequest, Elements DEF Recorded
<1>3. /\ Len(rep') = Len(rep) + 1 /\ Len(rep) \in Nat
      /\ \A i \in Position(rep') : i \in Nat /\
           \/ i \in Position(rep) /\ rep'[i] = rep[i]
           \/ i = Len(rep) + 1 /\ rep'[i].id = req[1].id /\ rep'[i].n = req[1].n
  BY <1>0, <1>1, <1>2, Emitted DEF Recorded
<1>4. req[1].id = own
  BY <1>1, <1>2 DEF Ranges, RangeRequests, Recorded
<1>5. /\ b \in Nat /\ b <= Len(rep) /\ b \in 0 .. Len(rep')
      /\ req[1].n = Len(records) + (Len(rep) - b)
  BY <1>2, <1>3, <1>4 DEF NumberedFrom
<1>6. \A i \in 1 .. b : rep'[i].id < own
  BY <1>3, <1>5 DEF NumberedFrom, Position
<1>7. \A i \in b + 1 .. Len(rep') : rep'[i].id = own /\ rep'[i].n = Len(records) + (i - b - 1)
  <2> SUFFICES ASSUME NEW i \in b + 1 .. Len(rep')
               PROVE  rep'[i].id = own /\ rep'[i].n = Len(records) + (i - b - 1)
    OBVIOUS
  <2>1. i \in Nat /\ i \in Position(rep') /\ b + 1 <= i
    BY <1>3, <1>5 DEF Position
  <2>2. CASE i \in Position(rep) /\ rep'[i] = rep[i]
    <3>1. i \in b + 1 .. Len(rep)
      BY <1>3, <1>5, <2>1, <2>2 DEF Position
    <3> QED
      BY <2>2, <3>1 DEF NumberedFrom
  <2>3. CASE i = Len(rep) + 1 /\ rep'[i].id = req[1].id /\ rep'[i].n = req[1].n
    <3>1. Len(rep) - b = i - b - 1
      BY <1>3, <1>5, <2>3
    <3> QED
      BY <1>4, <1>5, <2>3, <3>1
  <2> QED
    BY <1>3, <2>1, <2>2, <2>3
<1>8. \A k \in Position(req') : req'[k].id = own => req'[k].n = Len(records) + (Len(rep') - b)
  <2>1. Position(req') = Position(req) /\ req'[1].n = req[1].n + 1
    BY <1>1 DEF Recorded, Position
  <2>2. req'[1].n = Len(records) + (Len(rep') - b)
    BY <1>0, <1>2, <1>3, <1>5, <2>1
  <2>3. \A k \in Position(req) : k # 1 => req'[k] = req[k] /\ req[k].id # own
    <3>1. \A k \in Position(req) : k # 1 => k \in 2 .. Len(req)
      BY <1>0, Elements DEF Position
    <3>2. \A k \in Position(req) : k # 1 => req'[k] = req[k]
      BY <1>1, <3>1 DEF Recorded
    <3>3. \A k \in Position(req) : k # 1 => req[k].id # own
      BY <1>0, <1>2, <1>4, Elements
    <3> QED
      BY <3>2, <3>3
  <2> QED
    BY <2>1, <2>2, <2>3
<1>9. NumberedFrom(b)'
  BY <1>0, <1>6, <1>7, <1>8 DEF NumberedFrom
<1> QED
  BY <1>5, <1>9

\* What is collected is the next number.
LEMMA NumberedTake ==
  ASSUME Ordered, Ranges \subseteq {own}, TakeRecord, NEW b \in 0 .. Len(rep), NumberedFrom(b)
  PROVE  \E c \in 0 .. Len(rep') : NumberedFrom(c)'
<1>0. /\ TypeOK /\ rep \in Seq(Frame) /\ Len(rep) \in Nat /\ Len(records) \in Nat
      /\ rep # << >> /\ rep' = Tail(rep) /\ UNCHANGED <<req, own>>
      /\ records' = Append(records, rep[1]) /\ rep[1].kind = "record"
      /\ rep[1] \in Frame /\ records \in Seq(Frame) /\ own \in Nat
  BY Rest, Elements DEF Ordered, Typed, TypeOK, TakeRecord, Receives, Arrives
<1>1. Len(rep) > 0 /\ Dropped(1)
  BY <1>0, Drops
<1>2. Len(records') = Len(records) + 1
  BY <1>0, Appended DEF Longer
<1>3. rep[1].id = own
  <2>1. 1 \in RangeFrames
    BY <1>0, <1>1 DEF RangeFrames, Position
  <2> QED
    BY <2>1 DEF Ranges
<1>4. b = 0
  BY <1>0, <1>3, HeadNumber
<1>5. \A i \in 1 .. Len(rep') : rep'[i].id = own /\ rep'[i].n = Len(records') + (i - 0 - 1)
  <2> SUFFICES ASSUME NEW i \in 1 .. Len(rep')
               PROVE  rep'[i].id = own /\ rep'[i].n = Len(records') + (i - 0 - 1)
    OBVIOUS
  <2>1. /\ i + 1 \in b + 1 .. Len(rep) /\ rep'[i] = rep[i + 1]
        /\ Len(records) + ((i + 1) - b - 1) = Len(records') + (i - 0 - 1)
    BY <1>0, <1>1, <1>2, <1>4 DEF Dropped
  <2> QED
    BY <2>1 DEF NumberedFrom
<1>6. \A k \in Position(req) : req[k].id = own => req[k].n = Len(records') + (Len(rep') - 0)
  <2>1. Len(records) + (Len(rep) - b) = Len(records') + (Len(rep') - 0)
    BY <1>0, <1>1, <1>2, <1>4 DEF Dropped
  <2> QED
    BY <2>1 DEF NumberedFrom
<1>7. 0 \in 0 .. Len(rep')
  BY <1>0, <1>1 DEF Dropped
<1>8. NumberedFrom(0)'
  BY <1>0, <1>5, <1>6 DEF NumberedFrom
<1> QED
  BY <1>7, <1>8

LEMMA NumberedSkip ==
  ASSUME Ordered, SkipOther, NEW b \in 0 .. Len(rep), NumberedFrom(b)
  PROVE  \E c \in 0 .. Len(rep') : NumberedFrom(c)'
<1>0. /\ Typed /\ InOrder /\ rep \in Seq(Frame) /\ Len(rep) \in Nat /\ pc = "records"
      /\ rep # << >> /\ rep' = Tail(rep) /\ UNCHANGED <<req, own, records>>
      /\ rep[1].kind \in Name
  BY Rest, Elements DEF Ordered, Typed, TypeOK, SkipOther, Receives, Arrives
<1>1. Len(rep) > 0 /\ Dropped(1)
  BY <1>0, Drops
<1>2. sent[rep[1].id] = rep[1].kind
  <2>1. 1 \in Position(rep)
    BY <1>0, <1>1 DEF Position
  <2> QED
    BY <1>0, <2>1 DEF InOrder, Answers
<1>3. rep[1].id # own
  BY <1>0, <1>2, NameFacts DEF Typed, Stages
<1>4. b \in 1 .. Len(rep)
  BY <1>0, <1>3, HeadNumber
<1> QED
  BY <1>0, <1>1, <1>4, OldPassed

LEMMA NumberedSwap ==
  ASSUME Ordered, Swap /\ NodeStep, NEW b \in 0 .. Len(rep), NumberedFrom(b)
  PROVE  \E c \in 0 .. Len(rep') : NumberedFrom(c)'
<1>1. UNCHANGED <<rep, own, records>> /\ Len(req') = 0
  BY EmptySeq DEF Swap, NodeStep
<1>2. NumberedFrom(b)'
  BY <1>1 DEF NumberedFrom, Position
<1> QED
  BY <1>1, <1>2

\* A record that is taken is one of the awaited range.
LEMMA CleanStays ==
  ASSUME Ordered, Ordered', [Next]_vars, pc = "records", Clean,
         UNCHANGED <<own, results, sent>>, NodeStep \/ TakeRecord \/ SkipOther \/ UNCHANGED vars
  PROVE  Clean'
<1>0. TypeOK /\ Len(sent) \in Nat
  BY Elements DEF Ordered, Typed
<1>1. Ranges' \subseteq {own'}
  <2>1. Ranges' \subseteq Ranges
    <3>1. ~ (AbandonedWrite \/ SendHistory \/ SendQuery)
      BY DEF AbandonedWrite, SendHistory, SendQuery
    <3> QED
      BY <3>1, LineCases
  <2> QED
    BY <2>1 DEF Clean
<1>2. CASE records' = records
  BY <1>1, <1>2 DEF Clean, Position, Identity
<1>3. CASE TakeRecord
  <2>1. /\ rep # << >> /\ records' = Append(records, rep[1]) /\ rep[1].kind = "record"
        /\ rep[1] \in Frame /\ records \in Seq(Frame) /\ rep[1].node = Identity
        /\ Len(rep) \in Nat /\ Len(rep) > 0
    <3>1. rep # << >> /\ rep \in Seq(Frame) /\ records \in Seq(Frame)
      BY <1>0, <1>3 DEF TypeOK, TakeRecord, Receives, Arrives
    <3>2. Head(rep) = rep[1] /\ rep[1] \in Frame /\ Len(rep) \in Nat /\ Len(rep) > 0
      BY <1>0, <3>1, Rest, Elements
    <3> QED
      BY <1>3, <3>1, <3>2 DEF TakeRecord, Receives, Arrives
  <2>2. rep[1].id = own
    <3>1. 1 \in RangeFrames
      BY <2>1 DEF RangeFrames, Position
    <3> QED
      BY <3>1 DEF Clean, Ranges
  <2>3. Longer(records, records', rep[1])
    BY <2>1, Appended
  <2>4. \A i \in Position(records') :
          (i \in Position(records) /\ records'[i] = records[i]) \/ records'[i] = rep[1]
    BY <2>3 DEF Longer, Position
  <2>5. \A i \in Position(records') : records'[i].id = own' /\ records'[i].node = Identity'
    BY <2>1, <2>2, <2>4 DEF Clean, Identity
  <2> QED
    BY <1>1, <2>5 DEF Clean
<1> QED
  BY <1>2, <1>3 DEF NodeStep, SkipOther, vars

LEMMA CollectedNext ==
  Settled /\ Settled' /\ Lags /\ Fetching /\ Collected /\ [Next]_vars => Collected'
<1> SUFFICES ASSUME Settled, Settled', Lags, Fetching, Collected, [Next]_vars,
                    pc' = "records", Trusted'
             PROVE  Clean' /\ (lost' \/ \E c \in 0 .. Len(rep') : NumberedFrom(c)')
  BY DEF Collected
<1>0. Ordered /\ Ordered' /\ Typed
  BY DEF Settled, Ordered
<1>1. CASE SendHistory
  BY <1>1, CollectedStarts
<1>2. CASE /\ pc = "records" /\ UNCHANGED <<own, results, abandoned, sent>>
           /\ NodeStep \/ TakeRecord \/ SkipOther \/ UNCHANGED vars
  <2>1. Clean /\ (lost \/ \E b \in 0 .. Len(rep) : NumberedFrom(b))
    BY <1>0, <1>2, TrustStays DEF Collected
  <2>2. Clean'
    BY <1>0, <1>2, <2>1, CleanStays
  <2>3. lost => lost'
    BY <1>2 DEF NodeStep, Serve, SendRecord, Lose, Swap, TakeRecord, SkipOther, vars, ghosts
  <2>4. ASSUME ~ lost' PROVE \E c \in 0 .. Len(rep') : NumberedFrom(c)'
    <3>1. PICK b \in 0 .. Len(rep) : NumberedFrom(b)
      BY <2>1, <2>3, <2>4
    <3>2. Ranges \subseteq {own}
      BY <2>1 DEF Clean
    <3>3. CASE NodeStep
      BY <1>0, <1>2, <2>4, <3>1, <3>2, <3>3, NumberedServe, NumberedRecord, NumberedLose,
         NumberedSwap DEF NodeStep
    <3>4. CASE TakeRecord \/ SkipOther
      BY <1>0, <3>1, <3>2, <3>4, NumberedTake, NumberedSkip
    <3>5. CASE UNCHANGED vars
      BY <3>1, <3>5 DEF vars, NumberedFrom
    <3> QED
      BY <1>2, <3>3, <3>4, <3>5
  <2> QED
    BY <2>2, <2>4
<1> QED
  BY <1>0, <1>1, <1>2, RecordsSteps

LEMMA FetchingInit == Init => Fetching /\ Collected
BY DEF Init, Fetching, Collected

\* The completion response that is taken closes what has been collected.
LEMMA CompleteNext ==
  Settled /\ Settled' /\ Collected /\ CompleteIsOwn /\ [Next]_vars => CompleteIsOwn'
<1> SUFFICES ASSUME Settled, Settled', Collected, CompleteIsOwn, [Next]_vars,
                    outcome' = "complete", Trusted'
             PROVE  /\ \A i \in 1 .. Len(records') :
                         records'[i].id = own' /\ records'[i].node = Identity'
                    /\ closed'.id = own'
                    /\ lost' \/ Len(records') = closed'.n
  BY DEF CompleteIsOwn, Trusted
<1>0. Ordered /\ Ordered' /\ Typed /\ TypeOK
  BY DEF Settled, Ordered, Typed
<1>1. CASE outcome = "complete"
  <2>1. /\ UNCHANGED <<call, pc, attempt, results, own, records, outcome, closed>>
        /\ NodeStep \/ AbandonedWrite \/ UNCHANGED vars
    BY <1>0, <1>1, EndedStays
  <2>2. lost => lost'
    BY <2>1 DEF NodeStep, Serve, SendRecord, Lose, Swap, AbandonedWrite, vars
  <2>3. Trusted
    BY <1>0, <2>1, TrustStays
  <2> QED
    BY <1>1, <2>1, <2>2, <2>3 DEF CompleteIsOwn, Trusted, Identity
<1>2. CASE outcome # "complete"
  <2>1. Complete
    BY <1>0, <1>2, StopEffect DEF Next, HostStep, NodeStep, Begin, AbandonedWrite, vars, Open,
       Disconnect, Raise, SendQuery, TakeAnswer, TakeResponse, QueryTimeout, Conclude, SkipFrame,
       Decide, SendHistory, TakeRecord, SkipOther, Ends
  <2>2. /\ pc = "records" /\ UNCHANGED <<results, own, records, lost>>
        /\ rep # << >> /\ rep[1].kind = "end" /\ closed' = rep[1]
    <3>1. pc = "records" /\ UNCHANGED <<results, own, records, lost>>
      BY <1>0, <2>1, StopEffect
    <3>2. rep # << >> /\ Head(rep) = rep[1] /\ Head(rep).kind = "end" /\ closed' = Head(rep)
      BY <1>0, <2>1, Elements DEF Complete, Receives, Arrives, Stops
    <3> QED
      BY <3>1, <3>2
  <2>3. Clean /\ (lost \/ \E b \in 0 .. Len(rep) : NumberedFrom(b))
    BY <1>0, <2>2, TrustStays DEF Collected
  <2>4. rep[1].id = own
    <3>1. 1 \in Position(rep)
      BY <1>0, <2>2, Elements DEF Position
    <3> QED
      BY <2>2, <2>3, <3>1 DEF Clean, Ranges, RangeFrames
  <2>5. ~ lost => rep[1].n = Len(records)
    BY <1>0, <2>2, <2>3, <2>4, HeadNumber, Elements
  <2> QED
    BY <2>2, <2>3, <2>4, <2>5 DEF Clean, Identity, Position
<1> QED
  BY <1>1, <1>2

\* A history that is reported complete is the range of its own request, of the
\* node whose identity was read, and whole but for the records lost on the
\* line, unless two requests had been abandoned and the identity was stale.
THEOREM CompletedHistoryIsOwn == Spec => []CompleteIsOwn
<1>1. Init => CompleteIsOwn
  BY DEF Init, CompleteIsOwn
<1>2. Settled => Typed
  BY DEF Settled, Ordered
<1> QED
  BY <1>1, <1>2, LagsInv, FetchingInit, FetchingNext, CollectedNext, CompleteNext, PTL DEF Spec
===============================================================================
