----------------------- MODULE RestoreTransactionProofs -----------------------
(***************************************************************************)
(* Proofs about RestoreTransaction for every choice of its constants.      *)
(***************************************************************************)
EXTENDS RestoreTransaction, SequenceTheorems, TLAPS

\* Until something fails at most one request is outstanding, and none while
\* the host is not waiting for its answer.
Waiting == phase = "forward" /\ step \in {"ack", "reading"}

Discipline ==
  phase \in {"start", "forward"} =>
    /\ ~ Waiting => req = << >> /\ rep = << >>
    /\ req = << >> \/ rep = << >>
    /\ Len(req) <= 1 /\ Len(rep) <= 1
    /\ \A i \in 1 .. Len(req) :
         req[i] = IF step = "ack" THEN Write(op, target[op]) ELSE Query(op)
    /\ \A i \in 1 .. Len(rep) :
         step = "ack" => rep[i].type = "response"

Truthful ==
  \A i \in 1 .. Len(rep) : rep[i].type = "reading" => rep[i].value = dev[rep[i].field]

\* From the first query of the second backup on nothing writes: the queries
\* that are pending, those of a lost connection too, bring what the node has
\* and what the backup already took stays true.
Checked ==
  /\ phase \in {"start", "forward"} => backup = << >>
  /\ phase \in {"post", "restored"} =>
       /\ \A i \in 1 .. Len(req) : req[i].type = "query"
       /\ Truthful
       /\ \A i \in 1 .. Len(backup) : backup[i] \in {NoReading, dev[BackupOrder[i]]}
  /\ phase = "restored" => dev = target

Differ == {f \in Field : dev[f] # current[f]}

\* While operations are applied: what differs is applied or being written.
Forward ==
  /\ phase = "start" => dev = current /\ applied = {} /\ step = "next"
  /\ phase = "forward" =>
       /\ Differ \subseteq applied \cup (IF step = "ack" THEN {op} ELSE {})
       /\ todo \cap applied \subseteq IF step \in {"query", "reading"}
                                     THEN {op} ELSE {}
       /\ step = "ack" =>
            /\ op \in todo
            /\ req # << >> => Differ \subseteq applied
            /\ \A i \in 1 .. Len(rep) :
                 IsResponse(rep[i], 1) => Differ \subseteq applied
       /\ \A i \in 1 .. Len(rep) :
            rep[i].type = "reading" => rep[i].value = dev[rep[i].field]
  /\ phase = "post" => Differ \subseteq applied
  /\ phase \in {"start", "forward", "post"} => unacked = {}

\* Once something failed: a pending write is the one in doubt or writes an old
\* value back, and a pending reading that shows an applied operation's old
\* value tells the truth for good.
Backward ==
  phase \in {"abort", "rollback", "failed"} =>
    /\ applied \cap unacked = {}
    /\ \A i \in 1 .. Len(req) : req[i].type = "write" =>
         \/ req[i].field \in unacked
         \/ req[i].field \in applied /\ req[i].value = current[req[i].field]
    /\ \A i \in 1 .. Len(rep) :
         /\ rep[i].type = "reading" /\ rep[i].field \in applied
         /\ rep[i].value = current[rep[i].field]
         => dev[rep[i].field] = current[rep[i].field]
    /\ phase = "abort" => Differ \subseteq applied \cup unacked
    /\ phase = "rollback" =>
         /\ todo \subseteq applied
         /\ step # "next" => op \in applied
         /\ ~ rollbackErrors => Differ \subseteq unacked \cup todo
    /\ phase = "failed" /\ ~ rollbackErrors => Differ \subseteq unacked

-----------------------------------------------------------------------------
(* Sequences of messages. *)

LEMMA TailFacts ==
  ASSUME NEW S, NEW s \in Seq(S), s # << >>
  PROVE  /\ Head(s) \in S /\ Head(s) = s[1]
         /\ Tail(s) \in Seq(S)
         /\ Len(Tail(s)) = Len(s) - 1
         /\ Len(s) >= 1
         /\ \A i \in 1 .. Len(Tail(s)) : i + 1 \in 1 .. Len(s) /\ Tail(s)[i] = s[i + 1]
  OBVIOUS

LEMMA AppendFacts ==
  ASSUME NEW S, NEW s \in Seq(S), NEW e \in S
  PROVE  /\ Append(s, e) \in Seq(S)
         /\ Append(s, e) # << >>
         /\ Len(Append(s, e)) = Len(s) + 1
         /\ \A i \in 1 .. Len(s) : Append(s, e)[i] = s[i]
         /\ Append(s, e)[Len(s) + 1] = e
  OBVIOUS

LEMMA SingleFacts ==
  ASSUME NEW S, NEW s \in Seq(S), s # << >>, Len(s) <= 1
  PROVE  Len(s) = 1 /\ Head(s) = s[1] /\ Tail(s) = << >>
<1>1. Len(s) \in Nat \ {0}
  BY EmptySeq
<1>2. \A n \in Nat \ {0} : n <= 1 => n = 1
  OBVIOUS
<1>3. Len(s) = 1
  BY <1>1, <1>2
<1>4. Head(s) = s[1] /\ Tail(s) \in Seq(S)
  OBVIOUS
<1>5. Len(Tail(s)) = Len(s) - 1
  OBVIOUS
<1>6. Len(Tail(s)) = 0
  BY <1>3, <1>5
<1>7. \A t \in Seq(S) : Len(t) = 0 => t = << >>
  OBVIOUS
<1> QED BY <1>3, <1>4, <1>6, <1>7

LEMMA DropFacts ==
  ASSUME NEW S, NEW s \in Seq(S), NEW n \in 0 .. Len(s)
  PROVE  /\ SubSeq(s, n + 1, Len(s)) \in Seq(S)
         /\ Len(SubSeq(s, n + 1, Len(s))) = Len(s) - n
         /\ n = Len(s) => SubSeq(s, n + 1, Len(s)) = << >>
         /\ \A i \in 1 .. Len(SubSeq(s, n + 1, Len(s))) :
              i + n \in 1 .. Len(s) /\ SubSeq(s, n + 1, Len(s))[i] = s[i + n]
  OBVIOUS

-----------------------------------------------------------------------------
(* Type correctness. *)

USE ConstantsAssumption DEF ConstantsAssumption

LEMMA MessageTypes ==
  /\ \A f \in Field, v \in Value : Write(f, v) \in Request /\ Reading(f, v) \in Reply
  /\ \A f \in Field : Query(f) \in Request
  /\ \A c \in {0, 1} : Response(c) \in Reply
  BY DEF Write, Query, Response, Reading, Request, Reply, Value

LEMMA SubsetFields ==
  Restorable \subseteq Field /\ Config \subseteq [Field -> Value]
  BY DEF Field, Config

LEMMA DropType ==
  ASSUME TypeOK, NEW n \in 0 .. Len(rep), RestOfChunkDropped(n)
  PROVE  rep' \in Seq(Reply)
  BY DropFacts DEF TypeOK, RestOfChunkDropped

LEMMA RaiseType ==
  ASSUME TypeOK, NEW d \in SUBSET Restorable, Raise(d)
  PROVE  /\ phase' \in {"abort", "failed"}
         /\ rollbackErrors' \in BOOLEAN /\ unacked' \in SUBSET Restorable
         /\ UNCHANGED <<svc, step, op, todo, snap, applied, post>>
  BY DEF TypeOK, Raise, svc, snap, post

LEMMA TypeInit == Init => TypeOK
<1> SUFFICES ASSUME Init PROVE TypeOK
  OBVIOUS
<1>1. dev \in [Field -> Value] /\ current \in [Field -> Value] /\ target \in Config
  BY SubsetFields DEF Init
<1>2. req \in Seq(Request) /\ rep \in Seq(Reply) /\ backup \in Seq(Value \cup {NoReading})
  BY EmptySeq DEF Init
<1>3. validated \in SUBSET Restorable /\ lost \in 0 .. Retries
  BY DEF Init
<1> QED
  BY <1>1, <1>2, <1>3 DEF Init, TypeOK, Ended, Restorable

LEMMA TypeNode ==
  ASSUME TypeOK, NodeStep
  PROVE  TypeOK'
<1>1. req \in Seq(Request) /\ rep \in Seq(Reply) /\ dev \in [Field -> Value]
  BY DEF TypeOK
<1>2. PICK m \in Request : Serve(m)
  BY DEF NodeStep, NodeStores, NodeIgnores, NodeRefuses, NodeAnswers
<1>3. req' \in Seq(Request)
  BY <1>1, <1>2, TailFacts DEF Serve
<1>4. m.field \in Field /\ m.value \in Value
  BY DEF Request
<1>5. rep' \in Seq(Reply) /\ dev' \in [Field -> Value]
  <2>1. CASE NodeStores
    BY <2>1, <1>1, MessageTypes, AppendFacts DEF NodeStores, Request
  <2>2. CASE NodeIgnores
    BY <2>2, <1>1, MessageTypes, AppendFacts DEF NodeIgnores
  <2>3. CASE NodeRefuses
    BY <2>3, <1>1, MessageTypes, AppendFacts DEF NodeRefuses
  <2>4. CASE NodeAnswers
    <3>1. PICK q \in Request : rep' = Append(rep, Reading(q.field, dev[q.field]))
                              /\ dev' = dev
      BY <2>4 DEF NodeAnswers
    <3>2. Reading(q.field, dev[q.field]) \in Reply
      BY <1>1, MessageTypes DEF Request
    <3> QED BY <3>1, <3>2, <1>1, AppendFacts
  <2> QED BY <2>1, <2>2, <2>3, <2>4 DEF NodeStep
<1> QED
  BY <1>3, <1>5 DEF NodeStep, TypeOK, svc, snap, post

\* The query and the result of the second backup.
LEMMA AskedField ==
  ASSUME TypeOK, Len(backup) < Len(BackupOrder)
  PROVE  Asked \in Field /\ Query(Asked) \in Request
<1>1. Len(backup) + 1 \in 1 .. 4
  BY DEF TypeOK, BackupOrder
<1>2. Asked \in Field
  BY <1>1 DEF Asked, BackupOrder, Field, Restorable
<1> QED BY <1>2, MessageTypes

LEMMA ResultType ==
  ASSUME TypeOK, NEW v \in Value \cup {NoReading}, Result(v), rep' \in Seq(Reply)
  PROVE  TypeOK'
<1>1. backup' \in Seq(Value \cup {NoReading})
  BY AppendFacts DEF Result, TypeOK
<1> QED BY <1>1 DEF Result, TypeOK, svc, snap

LEMMA TypeHost ==
  ASSUME TypeOK, HostStep
  PROVE  TypeOK'
<1> USE DEF env, svc, snap, post, Ended
<1>1. CASE Refuse
  BY <1>1 DEF Refuse, TypeOK
<1>2. CASE Begin
  BY <1>2 DEF Begin, TypeOK, Operations
<1>3. CASE SendWrite
  <2>1. PICK f \in Restorable : /\ req' = Append(req, Write(f, Wanted(f)))
                                /\ op' = f
    BY <1>3 DEF SendWrite
  <2>2. Wanted(f) \in Value /\ f \in Field
    BY SubsetFields DEF Wanted, TypeOK
  <2>3. req' \in Seq(Request)
    BY <2>1, <2>2, MessageTypes, AppendFacts DEF TypeOK
  <2> QED BY <1>3, <2>1, <2>3 DEF SendWrite, TypeOK
<1>4. CASE RecvAck
  <2>1. rep' \in Seq(Reply)
    BY <1>4, DropType DEF RecvAck
  <2> QED BY <1>4, <2>1 DEF RecvAck, TypeOK
<1>5. CASE SkipFrame
  <2>1. rep' \in Seq(Reply)
    BY <1>5, TailFacts DEF SkipFrame, TypeOK
  <2> QED BY <1>5, <2>1 DEF SkipFrame, TypeOK
<1>6. CASE SendQuery
  <2>1. req' \in Seq(Request)
    BY <1>6, SubsetFields, MessageTypes, AppendFacts DEF SendQuery, TypeOK
  <2> QED BY <1>6, <2>1 DEF SendQuery, TypeOK
<1>7. CASE RecvReading
  <2>1. rep' \in Seq(Reply)
    BY <1>7, DropType DEF RecvReading, TakesReading
  <2>2. rollbackErrors' \in BOOLEAN
    BY <1>7 DEF RecvReading, TypeOK
  <2> QED BY <1>7, <2>1, <2>2 DEF RecvReading, Advance, TypeOK
<1>8. CASE TransportFails
  BY <1>8, RaiseType DEF TransportFails, TypeOK
<1>9. CASE EncodingFails
  BY <1>9, RaiseType DEF EncodingFails, TypeOK
<1>10. CASE RecvRefusal \/ RecvResponseToQuery \/ ReadbackDiffers
  <2>1. rep' \in Seq(Reply)
    BY <1>10, DropType DEF RecvRefusal, RecvResponseToQuery, ReadbackDiffers, TakesReading
  <2> QED
    BY <1>10, <2>1, RaiseType
    DEF RecvRefusal, RecvResponseToQuery, ReadbackDiffers, TypeOK
<1>11. CASE PostBackupEqual
  BY <1>11 DEF PostBackupEqual, TypeOK
<1>12. CASE PostBackupFails
  BY <1>12, EmptySeq DEF PostBackupFails, TypeOK
<1>15. CASE QueryForBackup
  <2>1. req' \in Seq(Request)
    BY <1>15, AskedField, AppendFacts DEF QueryForBackup, TypeOK
  <2> QED BY <1>15, <2>1 DEF QueryForBackup, TypeOK
<1>16. CASE BackupReading
  <2>1. rep' \in Seq(Reply)
    BY <1>16, DropType DEF BackupReading
  <2>2. Head(rep) \in Reply /\ Head(rep).type = "reading"
    BY <1>16, TailFacts DEF BackupReading, TypeOK
  <2>3. Head(rep).value \in Value
    BY <2>2 DEF Reply
  <2> QED BY <1>16, <2>1, <2>3, ResultType DEF BackupReading
<1>17. CASE BackupMisses
  <2>1. rep' \in Seq(Reply)
    BY <1>17, DropType DEF BackupMisses, TypeOK
  <2> QED BY <1>17, <2>1, ResultType DEF BackupMisses
<1>18. CASE BackupSkips
  <2>1. rep' \in Seq(Reply)
    BY <1>18, TailFacts DEF BackupSkips, TypeOK
  <2> QED BY <1>18, <2>1 DEF BackupSkips, TypeOK
<1>19. CASE BackupReconnects
  <2>1. rep' \in Seq(Reply)
    BY <1>19, DropType DEF BackupReconnects
  <2> QED BY <1>19, <2>1, EmptySeq DEF BackupReconnects, TypeOK
<1>13. CASE OpenForRollback
  <2>1. rep' \in Seq(Reply)
    BY <1>13, DropType DEF OpenForRollback
  <2> QED BY <1>13, <2>1 DEF OpenForRollback, TypeOK
<1>14. CASE OpenFails \/ NothingToRollBack
  BY <1>14 DEF OpenFails, NothingToRollBack, TypeOK
<1> QED
  BY <1>1, <1>2, <1>3, <1>4, <1>5, <1>6, <1>7, <1>8, <1>9, <1>10, <1>11,
     <1>12, <1>13, <1>14, <1>15, <1>16, <1>17, <1>18, <1>19 DEF HostStep

LEMMA TypeLose ==
  ASSUME TypeOK, LoseMessage
  PROVE  TypeOK'
<1>1. req \in Seq(Request) /\ rep \in Seq(Reply)
  BY DEF TypeOK
<1>2. /\ req # << >> => Tail(req) \in Seq(Request)
      /\ rep # << >> => Tail(rep) \in Seq(Reply)
  BY <1>1, TailFacts
<1>3. req' \in Seq(Request) /\ rep' \in Seq(Reply)
  BY <1>1, <1>2 DEF LoseMessage, Lost
<1>4. UNCHANGED <<dev, svc, phase, step, op, todo, snap, applied, post, rollbackErrors, unacked>>
  BY DEF LoseMessage
<1> QED
  BY <1>3, <1>4 DEF TypeOK, svc, snap, post

\* The variables of apply_restore keep their types whatever the node answers;
\* in particular no operation outside the restorable fields is ever planned,
\* written or rolled back.
THEOREM TypeCorrect == Spec => []TypeOK
<1>1. TypeOK /\ [Next]_vars => TypeOK'
  <2> SUFFICES ASSUME TypeOK, [Next]_vars PROVE TypeOK'
    OBVIOUS
  <2>1. CASE UNCHANGED vars
    BY <2>1 DEF vars, TypeOK
  <2> QED
    BY <2>1, TypeHost, TypeNode, TypeLose DEF Next
<1> QED
  BY <1>1, TypeInit, PTL DEF Spec

-----------------------------------------------------------------------------
(* One outstanding request, and the restored configuration. *)

LEMMA DisciplineInit == Init => Discipline /\ Checked
  BY DEF Init, Discipline, Checked, Waiting

LEMMA DisciplineNode ==
  ASSUME TypeOK, Discipline, NodeStep
  PROVE  Discipline'
<1> SUFFICES ASSUME phase \in {"start", "forward"}
             PROVE  Discipline'
  BY DEF NodeStep, Discipline
<1>1. PICK m \in Request : Serve(m)
  BY DEF NodeStep, NodeStores, NodeIgnores, NodeRefuses, NodeAnswers
<1>2. req # << >> /\ m = req[1] /\ Len(req) = 1 /\ rep = << >> /\ Waiting
      /\ req' = << >>
  <2>1. req \in Seq(Request) /\ req # << >> /\ Len(req) <= 1
    BY <1>1 DEF TypeOK, Serve, Discipline
  <2>2. Len(req) = 1 /\ Head(req) = req[1] /\ Tail(req) = << >>
    BY <2>1, SingleFacts
  <2> QED BY <1>1, <2>1, <2>2 DEF Serve, Discipline
<1>3. PICK r \in Reply : /\ rep' = Append(rep, r)
                         /\ m.type = "write" => r.type = "response"
  <2>1. CASE NodeStores \/ NodeIgnores \/ NodeRefuses
    BY <2>1, MessageTypes
    DEF NodeStores, NodeIgnores, NodeRefuses, Response
  <2>2. CASE NodeAnswers
    <3>1. PICK q \in Request : /\ Serve(q) /\ q.type = "query"
                              /\ rep' = Append(rep, Reading(q.field, dev[q.field]))
      BY <2>2 DEF NodeAnswers
    <3>2. Reading(q.field, dev[q.field]) \in Reply
      BY MessageTypes DEF Request, TypeOK
    <3> QED BY <1>1, <3>1, <3>2 DEF Serve
  <2> QED BY <2>1, <2>2 DEF NodeStep
<1>4. rep' = <<r>>
  BY <1>2, <1>3
<1>5. step = "ack" => m.type = "write"
  BY <1>2 DEF Discipline, Write
<1> QED
  BY <1>2, <1>3, <1>4, <1>5 DEF NodeStep, Discipline, Waiting, svc, snap

\* While no write is pending the node changes nothing and adds its own values.
LEMMA QueriesServed ==
  ASSUME TypeOK, \A i \in 1 .. Len(req) : req[i].type = "query", Truthful, NodeStep
  PROVE  /\ dev' = dev
         /\ \A i \in 1 .. Len(req') : req'[i].type = "query"
         /\ Truthful'
<1>1. PICK m \in Request : Serve(m)
  BY DEF NodeStep, NodeStores, NodeIgnores, NodeRefuses, NodeAnswers
<1>2. /\ m = req[1] /\ 1 \in 1 .. Len(req)
      /\ \A i \in 1 .. Len(req') : i + 1 \in 1 .. Len(req) /\ req'[i] = req[i + 1]
  BY <1>1, TailFacts DEF Serve, TypeOK
<1>3. m.type = "query"
  BY <1>2
<1>4. /\ dev' = dev
      /\ \E r \in Reply : /\ rep' = Append(rep, r)
                          /\ r.type = "reading" => r.value = dev[r.field]
  <2>1. CASE NodeStores \/ NodeIgnores
    BY <1>1, <1>3, <2>1 DEF NodeStores, NodeIgnores, Serve
  <2>2. CASE NodeRefuses
    BY <2>2, MessageTypes DEF NodeRefuses, Response
  <2>3. CASE NodeAnswers
    <3>1. PICK q \in Request : /\ rep' = Append(rep, Reading(q.field, dev[q.field]))
                               /\ dev' = dev
      BY <2>3 DEF NodeAnswers
    <3>2. Reading(q.field, dev[q.field]) \in Reply
      BY MessageTypes DEF Request, TypeOK
    <3> QED BY <3>1, <3>2 DEF Reading
  <2> QED BY <2>1, <2>2, <2>3 DEF NodeStep
<1>5. PICK r \in Reply : /\ rep' = Append(rep, r)
                         /\ r.type = "reading" => r.value = dev[r.field]
  BY <1>4
<1>6. rep \in Seq(Reply)
  BY DEF TypeOK
<1>7. Truthful'
  BY <1>4, <1>5, <1>6, AppendFacts DEF Truthful
<1> QED BY <1>2, <1>4, <1>7

\* The steps of the second backup leave all but its own variables alone.
BackupStep == \/ QueryForBackup \/ BackupReading \/ BackupMisses
              \/ BackupSkips \/ BackupReconnects

LEMMA BackupChanges ==
  ASSUME BackupStep
  PROVE  /\ phase = "post"
         /\ UNCHANGED <<dev, coupled, phase, op, todo, target, current, applied,
                        rollbackErrors, unacked>>
  BY DEF BackupStep, QueryForBackup, BackupReading, BackupMisses, BackupSkips,
         BackupReconnects, AwaitsResult, Result, svc, snap

LEMMA CheckedNode ==
  ASSUME TypeOK, Checked, NodeStep
  PROVE  Checked'
<1>1. UNCHANGED <<phase, target, backup>>
  BY DEF NodeStep, snap, post
<1>2. CASE phase \in {"post", "restored"}
  BY <1>1, <1>2, QueriesServed DEF Checked
<1>3. CASE phase \notin {"post", "restored"}
  BY <1>1, <1>3 DEF Checked
<1> QED BY <1>2, <1>3

LEMMA DisciplineHost ==
  ASSUME TypeOK, Discipline, HostStep
  PROVE  Discipline'
<1> USE DEF env, svc, snap, post
<1>0. TypeOK' BY TypeHost
<1>1. CASE Refuse
  BY <1>1 DEF Refuse, Discipline
<1>2. CASE Begin
  BY <1>2 DEF Begin, Discipline, Waiting
<1>3. CASE SendWrite
  <2>1. CASE phase = "forward"
    <3>1. req = << >> /\ rep = << >>
      BY <1>3, <2>1 DEF SendWrite, Discipline, Waiting
    <3>2. PICK f \in Restorable : op' = f /\ req' = Append(req, Write(f, Wanted(f)))
      BY <1>3 DEF SendWrite
    <3>3. req' = <<Write(op', target'[op'])>>
      BY <1>3, <2>1, <3>1, <3>2 DEF SendWrite, Wanted
    <3> QED BY <1>3, <2>1, <3>1, <3>3 DEF SendWrite, Discipline, Waiting
  <2>2. CASE phase # "forward"
    BY <1>3, <2>2 DEF SendWrite, Looping, Discipline
  <2> QED BY <2>1, <2>2
<1>4. CASE RecvAck
  <2>1. CASE phase = "forward"
    <3>1. req = << >> /\ Len(rep) = 1
      <4>1. rep \in Seq(Reply) /\ rep # << >> /\ req = << >> /\ Len(rep) <= 1
        BY <1>4, <2>1 DEF RecvAck, Discipline, TypeOK
      <4> QED BY <4>1, SingleFacts
    <3>2. rep' = << >>
      BY <1>4, <3>1, DropFacts DEF RecvAck, RestOfChunkDropped, TypeOK
    <3> QED BY <1>4, <2>1, <3>1, <3>2 DEF RecvAck, Discipline, Waiting
  <2>2. CASE phase # "forward"
    BY <1>4, <2>2 DEF RecvAck, Looping, Discipline
  <2> QED BY <2>1, <2>2
<1>5. CASE SkipFrame
  <2>1. CASE phase = "forward"
    <3>1. req = << >> /\ Len(rep) = 1 /\ rep' = << >>
      <4>1. /\ rep \in Seq(Reply) /\ rep # << >> /\ req = << >>
            /\ Len(rep) <= 1 /\ rep' = Tail(rep)
        BY <1>5, <2>1 DEF SkipFrame, Discipline, TypeOK
      <4> QED BY <4>1, SingleFacts
    <3>2. UNCHANGED <<dev, req, phase, step, op, target>> /\ step # "next" /\ step # "query"
      BY <1>5 DEF SkipFrame, TypeOK
    <3> QED BY <2>1, <3>1, <3>2 DEF Discipline, Waiting
  <2>2. CASE phase # "forward"
    BY <1>5, <2>2 DEF SkipFrame, Looping, Discipline
  <2> QED BY <2>1, <2>2
<1>6. CASE SendQuery
  <2>1. CASE phase = "forward"
    <3>1. req = << >> /\ rep = << >>
      BY <1>6, <2>1 DEF SendQuery, Discipline, Waiting
    <3>2. req' = <<Query(op)>>
      BY <1>6, <3>1 DEF SendQuery
    <3> QED BY <1>6, <2>1, <3>1, <3>2 DEF SendQuery, Discipline, Waiting
  <2>2. CASE phase # "forward"
    BY <1>6, <2>2 DEF SendQuery, Looping, Discipline
  <2> QED BY <2>1, <2>2
<1>7. CASE RecvReading
  <2>1. CASE phase = "forward"
    <3>1. req = << >> /\ Len(rep) = 1
      <4>1. rep \in Seq(Reply) /\ rep # << >> /\ req = << >> /\ Len(rep) <= 1
        BY <1>7, <2>1 DEF RecvReading, TakesReading, Discipline, TypeOK
      <4> QED BY <4>1, SingleFacts
    <3>2. rep' = << >>
      BY <1>7, <3>1, DropFacts DEF RecvReading, TakesReading, RestOfChunkDropped, TypeOK
    <3> QED BY <1>7, <2>1, <3>1, <3>2
            DEF RecvReading, Advance, Discipline, Waiting
  <2>2. CASE phase # "forward"
    BY <1>7, <2>2
    DEF RecvReading, TakesReading, Advance, Looping, Discipline
  <2> QED BY <2>1, <2>2
<1>8. CASE \/ TransportFails \/ EncodingFails \/ RecvRefusal
          \/ RecvResponseToQuery \/ ReadbackDiffers
  <2>1. phase' \in {"abort", "failed"}
    BY <1>8 DEF TransportFails, EncodingFails, RecvRefusal,
                RecvResponseToQuery, ReadbackDiffers, Raise
  <2> QED BY <2>1 DEF Discipline
<1>9. CASE \/ QueryForBackup \/ BackupReading \/ BackupMisses \/ BackupSkips
          \/ BackupReconnects \/ PostBackupEqual
  <2>1. phase' \notin {"start", "forward"}
    BY <1>9 DEF QueryForBackup, BackupReading, BackupMisses, BackupSkips, Result,
                AwaitsResult, BackupReconnects, PostBackupEqual
  <2> QED BY <2>1 DEF Discipline
<1>10. CASE PostBackupFails \/ OpenForRollback \/ OpenFails \/ NothingToRollBack
  BY <1>10 DEF PostBackupFails, OpenForRollback, OpenFails, NothingToRollBack,
               Discipline
<1> QED
  BY <1>1, <1>2, <1>3, <1>4, <1>5, <1>6, <1>7, <1>8, <1>9, <1>10 DEF HostStep

\* Replies that are read off the line leave the others as they were.
LEMMA TruthfulDrop ==
  ASSUME TypeOK, Truthful, NEW n \in 0 .. Len(rep), RestOfChunkDropped(n), UNCHANGED dev
  PROVE  Truthful'
<1>1. \A i \in 1 .. Len(rep') : i + n \in 1 .. Len(rep) /\ rep'[i] = rep[i + n]
  BY DropFacts DEF TypeOK, RestOfChunkDropped
<1> QED BY <1>1 DEF Truthful

\* A result of the second backup that is missing or true.
LEMMA CheckedResult ==
  ASSUME TypeOK, Checked, phase = "post", Truthful',
         NEW v \in Value \cup {NoReading}, Result(v), v \in {NoReading, dev[Asked]}
  PROVE  Checked'
<1>1. /\ UNCHANGED <<dev, req, phase>> /\ backup' = Append(backup, v)
      /\ backup \in Seq(Value \cup {NoReading})
  BY DEF Result, TypeOK
<1>2. \A i \in 1 .. Len(backup') : backup'[i] \in {NoReading, dev'[BackupOrder[i]]}
  <2> SUFFICES ASSUME NEW i \in 1 .. Len(backup')
               PROVE  backup'[i] \in {NoReading, dev[BackupOrder[i]]}
    BY <1>1
  <2>1. CASE i \in 1 .. Len(backup)
    BY <1>1, <2>1, AppendFacts DEF Checked
  <2>2. CASE i = Len(backup) + 1
    BY <1>1, <2>2, AppendFacts DEF Asked
  <2> QED BY <1>1, <2>1, <2>2, AppendFacts
<1> QED BY <1>1, <1>2 DEF Checked

\* The comparison covers every field.
LEMMA EqualIsTarget ==
  ASSUME TypeOK, Equal,
         \A i \in 1 .. Len(backup) : backup[i] \in {NoReading, dev[BackupOrder[i]]}
  PROVE  dev = target
<1>1. dev \in [Field -> Value] /\ target \in [Field -> Value]
  BY SubsetFields DEF TypeOK
<1>2. Len(backup) = 4
  BY DEF Equal, BackupOrder
<1>3. \A i \in 1 .. 4 : BackupOrder[i] \in Field
  BY DEF BackupOrder, Field, Restorable
<1>4. \A i \in 1 .. 4 : dev[BackupOrder[i]] = target[BackupOrder[i]]
  BY <1>1, <1>2, <1>3 DEF Equal, NoReading, Value
<1>5. \A f \in Field : \E i \in 1 .. 4 : f = BackupOrder[i]
  <2>1. /\ BackupOrder[1] = "sampling" /\ BackupOrder[2] = "calibration"
        /\ BackupOrder[3] = "channels" /\ BackupOrder[4] = "radio_slot_time"
    BY DEF BackupOrder
  <2>2. \A f \in Field : f \in {"sampling", "calibration", "channels", "radio_slot_time"}
    BY DEF Field, Restorable
  <2>3. 1 \in 1 .. 4 /\ 2 \in 1 .. 4 /\ 3 \in 1 .. 4 /\ 4 \in 1 .. 4
    OBVIOUS
  <2> QED BY <2>1, <2>2, <2>3
<1>6. \A f \in Field : dev[f] = target[f]
  BY <1>4, <1>5
<1> QED BY <1>1, <1>6

LEMMA CheckedHost ==
  ASSUME TypeOK, Discipline, Checked, HostStep
  PROVE  Checked'
<1> USE DEF env, svc, snap, post
<1>1. CASE Refuse \/ Begin \/ SendWrite \/ RecvAck \/ SkipFrame \/ SendQuery
  <2>1. /\ phase' \notin {"post", "restored"} /\ backup' = backup
        /\ phase' \in {"start", "forward"} => phase \in {"start", "forward"}
    BY <1>1 DEF Refuse, Begin, SendWrite, RecvAck, SkipFrame, SendQuery, Looping
  <2> QED BY <2>1 DEF Checked
<1>2. CASE RecvReading
  <2>1. CASE phase = "forward"
    <3>1. req = << >> /\ Len(rep) = 1
      <4>1. rep \in Seq(Reply) /\ rep # << >> /\ req = << >> /\ Len(rep) <= 1
        BY <1>2, <2>1 DEF RecvReading, TakesReading, Discipline, TypeOK
      <4> QED BY <4>1, SingleFacts
    <3>2. rep' = << >>
      BY <1>2, <3>1, DropFacts DEF RecvReading, TakesReading, RestOfChunkDropped, TypeOK
    <3>3. req' = << >> /\ backup' = << >> /\ phase' \in {"forward", "post"}
      BY <1>2, <2>1, <3>1 DEF RecvReading, Advance, Checked
    <3> QED BY <3>2, <3>3 DEF Checked, Truthful
  <2>2. CASE phase = "rollback"
    <3>1. phase' \in {"rollback", "failed"}
      BY <1>2, <2>2 DEF RecvReading, Advance
    <3> QED BY <3>1 DEF Checked
  <2> QED BY <1>2, <2>1, <2>2 DEF RecvReading, TakesReading, Looping
<1>3. CASE \/ TransportFails \/ EncodingFails \/ RecvRefusal
          \/ RecvResponseToQuery \/ ReadbackDiffers
  <2>1. phase' \in {"abort", "failed"}
    BY <1>3 DEF TransportFails, EncodingFails, RecvRefusal,
                RecvResponseToQuery, ReadbackDiffers, Raise
  <2> QED BY <2>1 DEF Checked
<1>4. CASE QueryForBackup
  <2>1. /\ UNCHANGED <<dev, rep, phase, backup>> /\ phase = "post"
        /\ req' = Append(req, Query(Asked)) /\ Query(Asked) \in Request
    BY <1>4, AskedField DEF QueryForBackup
  <2>2. \A i \in 1 .. Len(req') : req'[i].type = "query"
    BY <2>1, AppendFacts DEF Checked, Query, TypeOK
  <2> QED BY <2>1, <2>2 DEF Checked, Truthful
<1>5. CASE BackupReading
  <2>1. PICK n \in 1 .. Len(rep) : RestOfChunkDropped(n)
    BY <1>5 DEF BackupReading
  <2>2. /\ phase = "post" /\ UNCHANGED dev
        /\ rep \in Seq(Reply) /\ rep # << >> /\ Head(rep).type = "reading"
        /\ Head(rep).field = Asked /\ Result(Head(rep).value)
    BY <1>5 DEF BackupReading, AwaitsResult, Result, TypeOK
  <2>3. Head(rep) = rep[1] /\ 1 \in 1 .. Len(rep) /\ Head(rep) \in Reply
    BY <2>2, TailFacts
  <2>4. Head(rep).value = dev[Asked] /\ Head(rep).value \in Value
    BY <2>2, <2>3 DEF Checked, Truthful, Reply
  <2>5. Truthful'
    BY <2>1, <2>2, TruthfulDrop DEF Checked
  <2> QED BY <2>2, <2>4, <2>5, CheckedResult
<1>6. CASE BackupMisses
  <2>1. phase = "post" /\ UNCHANGED dev /\ Result(NoReading)
    BY <1>6 DEF BackupMisses, AwaitsResult, Result
  <2>2. Truthful'
    <3>1. CASE UNCHANGED rep
      BY <2>1, <3>1 DEF Checked, Truthful
    <3>2. CASE \E n \in 1 .. Len(rep) : RestOfChunkDropped(n)
      BY <2>1, <3>2, TruthfulDrop DEF Checked
    <3> QED BY <1>6, <3>1, <3>2 DEF BackupMisses
  <2> QED BY <2>1, <2>2, CheckedResult
<1>7. CASE BackupSkips
  <2>1. /\ phase = "post" /\ UNCHANGED <<dev, req, phase, backup>>
        /\ rep # << >> /\ rep' = Tail(rep)
    BY <1>7 DEF BackupSkips, AwaitsResult
  <2>2. \A i \in 1 .. Len(rep') : i + 1 \in 1 .. Len(rep) /\ rep'[i] = rep[i + 1]
    BY <2>1, TailFacts DEF TypeOK
  <2> QED BY <2>1, <2>2 DEF Checked, Truthful
<1>8. CASE BackupReconnects
  <2>1. /\ phase = "post" /\ UNCHANGED <<dev, req, phase>> /\ backup' = << >>
    BY <1>8 DEF BackupReconnects
  <2>2. Truthful'
    BY <1>8, <2>1, TruthfulDrop DEF BackupReconnects, Checked
  <2> QED BY <2>1, <2>2 DEF Checked
<1>9. CASE PostBackupEqual
  <2>1. dev = target
    BY <1>9, EqualIsTarget DEF PostBackupEqual, Checked
  <2> QED BY <1>9, <2>1 DEF PostBackupEqual, Checked, Truthful
<1>10. CASE PostBackupFails \/ OpenForRollback \/ OpenFails \/ NothingToRollBack
  BY <1>10 DEF PostBackupFails, OpenForRollback, OpenFails, NothingToRollBack, Checked
<1> QED
  BY <1>1, <1>2, <1>3, <1>4, <1>5, <1>6, <1>7, <1>8, <1>9, <1>10 DEF HostStep

LEMMA DisciplineLose ==
  ASSUME TypeOK, Discipline, LoseMessage
  PROVE  Discipline'
<1>1. CASE phase \in {"start", "forward"}
  <2>1. req' = << >> /\ rep' = << >> /\ Waiting
    BY <1>1, TailFacts DEF LoseMessage, Lost, Discipline, TypeOK
  <2> QED BY <2>1 DEF LoseMessage, Discipline, Waiting, svc, snap
<1>2. CASE phase \notin {"start", "forward"}
  BY <1>2 DEF LoseMessage, Discipline
<1> QED BY <1>1, <1>2

LEMMA CheckedLose ==
  ASSUME TypeOK, Checked, LoseMessage
  PROVE  Checked'
<1>1. UNCHANGED <<dev, phase, target, backup>>
  BY DEF LoseMessage, snap, post
<1>2. CASE req # << >> /\ req' = Tail(req) /\ rep' = rep
  <2>1. \A i \in 1 .. Len(req') : i + 1 \in 1 .. Len(req) /\ req'[i] = req[i + 1]
    BY <1>2, TailFacts DEF TypeOK
  <2> QED BY <1>1, <1>2, <2>1 DEF Checked, Truthful
<1>3. CASE rep # << >> /\ rep' = Tail(rep) /\ req' = req
  <2>1. \A i \in 1 .. Len(rep') : i + 1 \in 1 .. Len(rep) /\ rep'[i] = rep[i + 1]
    BY <1>3, TailFacts DEF TypeOK
  <2> QED BY <1>1, <1>3, <2>1 DEF Checked, Truthful
<1> QED BY <1>2, <1>3 DEF LoseMessage, Lost

LEMMA DisciplineInv == Spec => [](Discipline /\ Checked)
<1>1. TypeOK /\ Discipline /\ Checked /\ [Next]_vars => (Discipline /\ Checked)'
  <2> SUFFICES ASSUME TypeOK, Discipline, Checked, [Next]_vars
               PROVE  Discipline' /\ Checked'
    OBVIOUS
  <2>1. CASE UNCHANGED vars
    BY <2>1 DEF vars, Discipline, Checked, Truthful, Waiting
  <2> QED
    BY <2>1, DisciplineHost, DisciplineNode, DisciplineLose, CheckedHost, CheckedNode,
       CheckedLose DEF Next
<1> QED
  BY <1>1, DisciplineInit, TypeCorrect, PTL DEF Spec

\* A restore that reports success has made the node equal to the snapshot, in
\* every field and for good, whatever the writes disturb and whatever the line
\* loses: no write of the transaction is still on its way, and each of the
\* readings the second backup compared, taken one after the other and perhaps
\* over several connections, is still true when it is complete.
THEOREM RestoredIsTarget == Spec => []RestoredMeansTarget
<1>1. TypeOK /\ Checked => RestoredMeansTarget
  <2> SUFFICES ASSUME TypeOK, Checked, phase = "restored"
               PROVE  dev = target /\ PendingWrites = {}
    BY DEF RestoredMeansTarget
  <2> QED BY DEF Checked, PendingWrites
<1> QED
  BY <1>1, TypeCorrect, DisciplineInv, PTL

-----------------------------------------------------------------------------
(* What a failed restore leaves behind, on a node whose writes change the    *)
(* named field only.                                                         *)

LEMMA NodeEffect ==
  ASSUME TypeOK, ~ coupled, NodeStep
  PROVE  \E m \in Request, r \in Reply :
           /\ Serve(m) /\ rep' = Append(rep, r)
           /\ r = Reading(m.field, dev[m.field]) \/ r.type = "response"
           /\ \/ dev' = dev
              \/ /\ m.type = "write" /\ dev' = [dev EXCEPT ![m.field] = m.value]
                 /\ r = Response(0)
  <1>1. CASE NodeStores
    BY <1>1, MessageTypes DEF NodeStores, Response
  <1>2. CASE NodeIgnores \/ NodeRefuses
    BY <1>2, MessageTypes DEF NodeIgnores, NodeRefuses, Response
  <1>3. CASE NodeAnswers
    <2>1. PICK m \in Request : /\ Serve(m) /\ m.type = "query" /\ dev' = dev
                              /\ rep' = Append(rep, Reading(m.field, dev[m.field]))
      BY <1>3 DEF NodeAnswers
    <2>2. Reading(m.field, dev[m.field]) \in Reply
      BY MessageTypes DEF Request, TypeOK
    <2> QED BY <2>1, <2>2
  <1> QED BY <1>1, <1>2, <1>3 DEF NodeStep

LEMMA ForwardNode ==
  ASSUME TypeOK, ~ coupled, Discipline, Checked, Forward, NodeStep
  PROVE  Forward'
<1>0. CASE phase = "post"
  <2>1. dev' = dev
    BY <1>0, QueriesServed DEF Checked
  <2>2. UNCHANGED <<phase, current, applied, unacked>>
    BY DEF NodeStep, snap
  <2> QED BY <1>0, <2>1, <2>2 DEF Forward, Differ
<1> SUFFICES ASSUME phase \in {"start", "forward"} PROVE Forward'
  BY <1>0 DEF NodeStep, Forward
<1>1. PICK m \in Request, r \in Reply :
        /\ Serve(m) /\ rep' = Append(rep, r)
        /\ r = Reading(m.field, dev[m.field]) \/ r.type = "response"
        /\ \/ dev' = dev
           \/ /\ m.type = "write" /\ dev' = [dev EXCEPT ![m.field] = m.value]
              /\ r = Response(0)
  BY NodeEffect
<1>2. req # << >> /\ req \in Seq(Request) /\ Len(req) <= 1 /\ rep = << >>
  BY <1>1 DEF Serve, Discipline, TypeOK
<1>3. Len(req) = 1 /\ m = req[1] /\ req' = << >> /\ rep' = <<r>>
  BY <1>1, <1>2, SingleFacts DEF Serve
<1>4. phase = "forward" /\ step \in {"ack", "reading"}
  BY <1>2 DEF Discipline, Waiting
<1>5. m = IF step = "ack" THEN Write(op, target[op]) ELSE Query(op)
  BY <1>3, <1>4 DEF Discipline
<1>6. UNCHANGED <<phase, step, op, todo, current, applied, unacked>>
  BY DEF NodeStep, snap
<1>7. CASE step = "ack"
  <2>1. m.type = "write" /\ m.field = op
    BY <1>5, <1>7 DEF Write
  <2>2. Differ \subseteq applied
    BY <1>2, <1>4, <1>7 DEF Forward
  <2>3. Differ' \subseteq applied \cup {op}
    BY <1>1, <1>6, <2>1, <2>2 DEF Differ, TypeOK
  <2>4. r.type = "reading" => FALSE
    <3>1. CASE NodeAnswers
      BY <1>1, <2>1, <3>1 DEF NodeAnswers, Serve
    <3>2. CASE ~ NodeAnswers
      <4>1. rep'[1].type = "response"
        BY <3>2, <1>2 DEF NodeStep, NodeStores, NodeIgnores, NodeRefuses, Response
      <4> QED BY <4>1, <1>3
    <3> QED BY <3>1, <3>2
  <2>5. IsResponse(r, 1) => Differ' \subseteq applied
    BY <1>1, <1>6, <2>2 DEF Differ, IsResponse, Response
  <2> QED
    BY <1>3, <1>4, <1>6, <1>7, <2>2, <2>3, <2>4, <2>5 DEF Forward
<1>8. CASE step = "reading"
  <2>1. m.type = "query" /\ m.field = op
    BY <1>5, <1>8 DEF Query
  <2>2. dev' = dev /\ Differ' = Differ
    BY <1>1, <1>6, <2>1 DEF Differ
  <2>3. r.type = "reading" => r.value = dev[r.field]
    BY <1>1 DEF Reading
  <2> QED
    BY <1>3, <1>4, <1>6, <1>8, <2>2, <2>3 DEF Forward
<1> QED BY <1>4, <1>7, <1>8

LEMMA ForwardHost ==
  ASSUME TypeOK, Discipline, Forward, HostStep
  PROVE  Forward'
<1> USE DEF env, svc, snap
<1>0. phase \in {"start", "forward", "post", "abort", "rollback"} \cup Ended
  BY DEF TypeOK
<1>1. CASE Refuse
  BY <1>1 DEF Refuse, Forward
<1>2. CASE Begin
  <2>1. rep = << >> /\ rep' = << >> /\ step' = "next" /\ applied' = {}
    BY <1>2 DEF Begin, Forward, Discipline, Waiting
  <2>2. Differ' = {}
    BY <1>2 DEF Begin, Differ
  <2> QED BY <1>2, <2>1, <2>2 DEF Begin, Forward
<1>3. CASE SendWrite
  <2>1. CASE phase = "forward"
    <3>1. PICK f \in Restorable : op' = f /\ f \in todo
      BY <1>3 DEF SendWrite, IsNext
    <3>2. rep = << >> /\ rep' = << >>
      BY <1>3, <2>1 DEF SendWrite, Discipline, Waiting
    <3> QED
      BY <1>3, <2>1, <3>1, <3>2 DEF SendWrite, Forward, Differ
  <2>2. CASE phase = "rollback"
    BY <1>3, <2>2 DEF SendWrite, Forward
  <2> QED BY <1>3, <2>1, <2>2 DEF SendWrite, Looping
<1>4. CASE RecvAck
  <2>1. CASE phase = "forward"
    <3>1. rep # << >> /\ rep \in Seq(Reply) /\ Len(rep) <= 1
      BY <1>4, <2>1 DEF RecvAck, Discipline, TypeOK
    <3>2. Len(rep) = 1
      BY <3>1, SingleFacts
    <3>3. rep' = << >>
      BY <1>4, <3>1, <3>2, DropFacts DEF RecvAck, RestOfChunkDropped
    <3> QED
      BY <1>4, <2>1, <3>3 DEF RecvAck, Forward, Differ
  <2>2. CASE phase = "rollback"
    BY <1>4, <2>2 DEF RecvAck, Forward
  <2> QED BY <1>4, <2>1, <2>2 DEF RecvAck, Looping
<1>5. CASE SkipFrame
  <2>1. CASE phase = "forward"
    <3>1. rep # << >> /\ rep \in Seq(Reply) /\ Len(rep) <= 1 /\ rep' = Tail(rep)
      BY <1>5, <2>1 DEF SkipFrame, Discipline, TypeOK
    <3>2. rep' = << >>
      BY <3>1, SingleFacts
    <3> QED
      BY <1>5, <2>1, <3>2 DEF SkipFrame, Forward, Differ
  <2>2. CASE phase = "rollback"
    BY <1>5, <2>2 DEF SkipFrame, Forward
  <2> QED BY <1>5, <2>1, <2>2 DEF SkipFrame, Looping
<1>6. CASE SendQuery
  BY <1>6 DEF SendQuery, Forward, Differ, Looping
<1>7. CASE RecvReading
  <2>1. CASE phase = "forward"
    <3>1. rep # << >> /\ rep \in Seq(Reply) /\ Len(rep) <= 1
      BY <1>7, <2>1 DEF RecvReading, TakesReading, Discipline, TypeOK
    <3>2. Len(rep) = 1
      BY <3>1, SingleFacts
    <3>3. rep' = << >>
      BY <1>7, <3>1, <3>2, DropFacts DEF RecvReading, TakesReading, RestOfChunkDropped
    <3> QED
      BY <1>7, <2>1, <3>3 DEF RecvReading, TakesReading, Advance, Forward, Differ
  <2>2. CASE phase = "rollback"
    BY <1>7, <2>2 DEF RecvReading, TakesReading, Advance, Forward
  <2> QED BY <1>7, <2>1, <2>2 DEF RecvReading, TakesReading, Looping
<1>8. CASE \/ TransportFails \/ EncodingFails \/ RecvRefusal
          \/ RecvResponseToQuery \/ ReadbackDiffers
  <2>1. phase' \in {"abort", "failed"}
    BY <1>8 DEF TransportFails, EncodingFails, RecvRefusal,
                RecvResponseToQuery, ReadbackDiffers, Raise
  <2> QED BY <2>1 DEF Forward
<1>9. CASE PostBackupEqual \/ PostBackupFails
  BY <1>9 DEF PostBackupEqual, PostBackupFails, Forward
<1>10. CASE OpenForRollback \/ OpenFails \/ NothingToRollBack
  BY <1>10 DEF OpenForRollback, OpenFails, NothingToRollBack, Forward
<1>11. CASE BackupStep
  BY <1>11, BackupChanges DEF Forward, Differ
<1> QED
  BY <1>1, <1>2, <1>3, <1>4, <1>5, <1>6, <1>7, <1>8, <1>9, <1>10, <1>11
  DEF HostStep, BackupStep

LEMMA ForwardLose ==
  ASSUME TypeOK, Discipline, Forward, LoseMessage
  PROVE  Forward'
<1>3. Differ' = Differ
  BY DEF LoseMessage, Differ, snap
<1>0. CASE phase = "post"
  BY <1>0, <1>3 DEF LoseMessage, Forward, snap
<1> SUFFICES ASSUME phase \in {"start", "forward"} PROVE Forward'
  BY <1>0 DEF LoseMessage, Forward
<1>1. req \in Seq(Request) /\ rep \in Seq(Reply) /\ Len(req) <= 1 /\ Len(rep) <= 1
  BY DEF Discipline, TypeOK
<1>2. req' = << >> /\ rep' = << >>
  <2>1. CASE req # << >>
    BY <2>1, <1>1, SingleFacts DEF LoseMessage, Lost, Discipline
  <2>2. CASE req = << >>
    BY <2>2, <1>1, SingleFacts DEF LoseMessage, Lost, Discipline
  <2> QED BY <2>1, <2>2
<1> QED
  BY <1>2, <1>3 DEF LoseMessage, Forward, snap

LEMMA BackwardNode ==
  ASSUME TypeOK, ~ coupled, Discipline, Forward, Backward, NodeStep
  PROVE  Backward'
<1> SUFFICES ASSUME phase \in {"abort", "rollback", "failed"} PROVE Backward'
  BY DEF NodeStep, Backward
<1>1. PICK m \in Request, r \in Reply :
        /\ Serve(m) /\ rep' = Append(rep, r)
        /\ r = Reading(m.field, dev[m.field]) \/ r.type = "response"
        /\ \/ dev' = dev
           \/ /\ m.type = "write" /\ dev' = [dev EXCEPT ![m.field] = m.value]
              /\ r = Response(0)
  BY NodeEffect
<1>2. UNCHANGED <<phase, step, op, todo, current, applied, unacked, rollbackErrors>>
  BY DEF NodeStep, snap
<1>3. req # << >> /\ req \in Seq(Request) /\ rep \in Seq(Reply)
      /\ dev \in [Field -> Value] /\ current \in [Field -> Value]
      /\ m = Head(req) /\ req' = Tail(req)
  BY <1>1 DEF Serve, TypeOK
<1>4. /\ 1 \in 1 .. Len(req) /\ m = req[1]
      /\ \A i \in 1 .. Len(req') : i + 1 \in 1 .. Len(req) /\ req'[i] = req[i + 1]
  BY <1>3, TailFacts
<1>5. \A i \in 1 .. Len(req') : req'[i].type = "write" =>
        \/ req'[i].field \in unacked'
        \/ req'[i].field \in applied' /\ req'[i].value = current'[req'[i].field]
  BY <1>2, <1>4 DEF Backward
<1>6. \A f \in Field : dev'[f] # dev[f] =>
        f \in unacked \/ (f \in applied /\ dev'[f] = current[f])
  BY <1>1, <1>3, <1>4 DEF Backward
<1>7. applied \cap unacked = {}
  BY DEF Backward
<1>8. \A f \in applied : dev[f] = current[f] => dev'[f] = current[f]
  BY <1>6, <1>7, SubsetFields DEF TypeOK
<1>9. Differ' \subseteq Differ \cup unacked
  BY <1>2, <1>6 DEF Differ
<1>10. \A i \in 1 .. Len(rep') :
         rep'[i].type = "reading" /\ rep'[i].field \in applied
         /\ rep'[i].value = current[rep'[i].field]
         => dev'[rep'[i].field] = current[rep'[i].field]
  <2> SUFFICES ASSUME NEW i \in 1 .. Len(rep'),
                      rep'[i].type = "reading", rep'[i].field \in applied,
                      rep'[i].value = current[rep'[i].field]
               PROVE  dev'[rep'[i].field] = current[rep'[i].field]
    OBVIOUS
  <2>1. CASE i \in 1 .. Len(rep)
    <3>1. rep'[i] = rep[i]
      BY <1>1, <1>3, <2>1, AppendFacts
    <3> QED BY <1>8, <2>1, <3>1 DEF Backward
  <2>2. CASE i = Len(rep) + 1
    <3>1. rep'[i] = r
      BY <1>1, <1>3, <2>2, AppendFacts
    <3>2. r = Reading(m.field, dev[m.field]) /\ dev' = dev
      BY <1>1, <3>1 DEF Response
    <3> QED BY <3>1, <3>2 DEF Reading
  <2>3. i \in 1 .. Len(rep) \/ i = Len(rep) + 1
    BY <1>1, <1>3, AppendFacts
  <2> QED BY <2>1, <2>2, <2>3
<1> QED
  BY <1>2, <1>5, <1>9, <1>10 DEF Backward

LEMMA BackwardLose ==
  ASSUME TypeOK, Backward, LoseMessage
  PROVE  Backward'
<1>1. UNCHANGED <<dev, phase, step, op, todo, current, applied, unacked, rollbackErrors>>
  BY DEF LoseMessage, snap
<1>2. CASE req # << >> /\ req' = Tail(req) /\ rep' = rep
  <2>1. \A i \in 1 .. Len(req') : i + 1 \in 1 .. Len(req) /\ req'[i] = req[i + 1]
    BY <1>2, TailFacts DEF TypeOK
  <2> QED BY <1>1, <1>2, <2>1 DEF Backward, Differ
<1>3. CASE rep # << >> /\ rep' = Tail(rep) /\ req' = req
  <2>1. \A i \in 1 .. Len(rep') : i + 1 \in 1 .. Len(rep) /\ rep'[i] = rep[i + 1]
    BY <1>3, TailFacts DEF TypeOK
  <2> QED BY <1>1, <1>3, <2>1 DEF Backward, Differ
<1> QED BY <1>2, <1>3 DEF LoseMessage, Lost

\* Reading replies off the line takes nothing from the invariant.
LEMMA BackwardDrop ==
  ASSUME TypeOK, Backward, NEW n \in 0 .. Len(rep), RestOfChunkDropped(n),
         UNCHANGED <<dev, current, applied>>
  PROVE  phase \in {"abort", "rollback", "failed"} =>
           \A i \in 1 .. Len(rep') :
             rep'[i].type = "reading" /\ rep'[i].field \in applied'
             /\ rep'[i].value = current'[rep'[i].field]
             => dev'[rep'[i].field] = current'[rep'[i].field]
<1>1. \A i \in 1 .. Len(rep') : i + n \in 1 .. Len(rep) /\ rep'[i] = rep[i + n]
  BY DropFacts DEF TypeOK, RestOfChunkDropped
<1>2. phase \in {"abort", "rollback", "failed"} =>
        \A j \in 1 .. Len(rep) :
          rep[j].type = "reading" /\ rep[j].field \in applied
          /\ rep[j].value = current[rep[j].field] => dev[rep[j].field] = current[rep[j].field]
  BY DEF Backward
<1>3. ASSUME phase \in {"abort", "rollback", "failed"}, NEW i \in 1 .. Len(rep'),
             rep'[i].type = "reading", rep'[i].field \in applied',
             rep'[i].value = current'[rep'[i].field]
      PROVE  dev'[rep'[i].field] = current'[rep'[i].field]
  BY <1>1, <1>2, <1>3
<1> QED BY <1>3

\* A write or a query of the rollback joins the requests.
LEMMA BackwardAppend ==
  ASSUME TypeOK, Backward, phase \in {"abort", "rollback", "failed"},
         NEW m \in Request, req' = Append(req, m),
         \/ m.type = "query"
         \/ m.field \in applied /\ m.value = current[m.field],
         UNCHANGED <<current, applied, unacked>>
  PROVE  \A i \in 1 .. Len(req') : req'[i].type = "write" =>
           \/ req'[i].field \in unacked'
           \/ req'[i].field \in applied' /\ req'[i].value = current'[req'[i].field]
<1> SUFFICES ASSUME NEW i \in 1 .. Len(req'), req'[i].type = "write"
             PROVE  \/ req'[i].field \in unacked
                    \/ req'[i].field \in applied /\ req'[i].value = current[req'[i].field]
  OBVIOUS
<1>1. req \in Seq(Request)
  BY DEF TypeOK
<1>2. i \in 1 .. Len(req) \/ i = Len(req) + 1
  BY <1>1, AppendFacts
<1>3. CASE i \in 1 .. Len(req)
  <2>1. req'[i] = req[i]
    BY <1>1, <1>3, AppendFacts
  <2> QED BY <1>3, <2>1 DEF Backward
<1>4. CASE i = Len(req) + 1
  <2>1. req'[i] = m
    BY <1>1, <1>4, AppendFacts
  <2> QED BY <2>1
<1> QED BY <1>2, <1>3, <1>4

\* An exception in the forward loop.
LEMMA BackwardEnter ==
  ASSUME TypeOK, Discipline, Forward, phase = "forward",
         NEW d \in SUBSET Restorable, Raise(d),
         UNCHANGED dev,
         \/ UNCHANGED <<req, rep>> /\ d = IF step = "ack" THEN {op} ELSE {}
         \/ req' = << >> /\ rep' = << >> /\ d = {} /\ Differ \subseteq applied
  PROVE  Backward'
<1>1. /\ phase' = "abort" /\ unacked' = d
      /\ UNCHANGED <<step, op, todo, current, applied>>
  BY DEF Raise, snap
<1>2. Differ' = Differ
  BY <1>1 DEF Differ
<1>3. CASE UNCHANGED <<req, rep>> /\ d = IF step = "ack" THEN {op} ELSE {}
  <2>1. applied \cap d = {} /\ Differ \subseteq applied \cup d
    BY <1>3 DEF Forward
  <2>2. \A i \in 1 .. Len(req) : req[i].type = "write" => req[i].field \in d
    BY <1>3 DEF Discipline, Write, Query
  <2>3. \A i \in 1 .. Len(rep) :
          rep[i].type = "reading" => rep[i].value = dev[rep[i].field]
    BY DEF Forward
  <2> QED BY <1>1, <1>2, <1>3, <2>1, <2>2, <2>3 DEF Backward
<1>4. CASE req' = << >> /\ rep' = << >> /\ d = {} /\ Differ \subseteq applied
  BY <1>1, <1>2, <1>4 DEF Backward
<1> QED BY <1>3, <1>4

\* An exception in the rollback loop.
LEMMA BackwardRaise ==
  ASSUME TypeOK, Backward, phase = "rollback",
         NEW d \in SUBSET Restorable, Raise(d), UNCHANGED <<dev, req>>,
         NEW n \in 0 .. Len(rep), RestOfChunkDropped(n)
  PROVE  Backward'
<1>1. /\ phase' = "failed" /\ rollbackErrors'
      /\ UNCHANGED <<unacked, step, op, todo, current, applied>>
  BY DEF Raise, snap
<1> QED BY <1>1, BackwardDrop DEF Backward

LEMMA ReplyUnread ==
  ASSUME TypeOK, UNCHANGED rep
  PROVE  RestOfChunkDropped(0)
<1>1. rep \in Seq(Reply)
  BY DEF TypeOK
<1> QED BY <1>1 DEF RestOfChunkDropped

\* The only reply of a forward iteration is gone once it is read.
LEMMA ForwardDrop ==
  ASSUME TypeOK, Discipline, phase = "forward", rep # << >>,
         NEW n \in 1 .. Len(rep), RestOfChunkDropped(n)
  PROVE  req = << >> /\ rep' = << >> /\ Head(rep) = rep[1] /\ 1 \in 1 .. Len(rep)
<1>1. rep \in Seq(Reply) /\ Len(rep) <= 1 /\ req = << >>
  BY DEF Discipline, TypeOK
<1>2. Len(rep) = 1 /\ Head(rep) = rep[1]
  BY <1>1, SingleFacts
<1>3. n = Len(rep)
  BY <1>2
<1>4. rep' = << >>
  BY <1>1, <1>3, DropFacts DEF RestOfChunkDropped
<1> QED BY <1>1, <1>2, <1>4

LEMMA BackwardHost ==
  ASSUME TypeOK, Discipline, Checked, Forward, Backward, HostStep
  PROVE  Backward'
<1> USE DEF env, svc, snap
<1>1. CASE Refuse \/ Begin
  BY <1>1 DEF Refuse, Begin, Backward
<1>2. CASE SendWrite
  <2>1. CASE phase = "forward"
    BY <1>2, <2>1 DEF SendWrite, Backward
  <2>2. CASE phase = "rollback"
    <3>1. PICK f \in Restorable : /\ f \in todo /\ op' = f
                                 /\ req' = Append(req, Write(f, current[f]))
      BY <1>2, <2>2 DEF SendWrite, IsNext, Wanted
    <3>2. f \in applied /\ Write(f, current[f]) \in Request
      BY <2>2, <3>1, SubsetFields, MessageTypes DEF Backward, TypeOK
    <3>3. Differ' = Differ
      BY <1>2 DEF SendWrite, Differ
    <3>4. UNCHANGED <<dev, rep, phase, todo, current, applied, unacked, rollbackErrors>>
      BY <1>2 DEF SendWrite
    <3>5. \A i \in 1 .. Len(req') : req'[i].type = "write" =>
            \/ req'[i].field \in unacked'
            \/ req'[i].field \in applied' /\ req'[i].value = current'[req'[i].field]
      BY <2>2, <3>1, <3>2, <3>4, BackwardAppend DEF Write
    <3> QED BY <2>2, <3>1, <3>2, <3>3, <3>4, <3>5 DEF Backward
  <2> QED BY <1>2, <2>1, <2>2 DEF SendWrite, Looping
<1>3. CASE RecvAck
  <2>1. CASE phase = "forward"
    BY <1>3, <2>1 DEF RecvAck, Backward
  <2>2. CASE phase = "rollback"
    <3>1. /\ UNCHANGED <<dev, req, phase, op, todo, current, applied, unacked, rollbackErrors>>
          /\ step = "ack"
      BY <1>3, <2>2 DEF RecvAck
    <3>2. PICK n \in 0 .. Len(rep) : RestOfChunkDropped(n)
      BY <1>3 DEF RecvAck
    <3>3. Differ' = Differ
      BY <3>1 DEF Differ
    <3> QED BY <2>2, <3>1, <3>2, <3>3, BackwardDrop DEF Backward
  <2> QED BY <1>3, <2>1, <2>2 DEF RecvAck, Looping
<1>4. CASE SkipFrame
  <2>1. CASE phase = "forward"
    BY <1>4, <2>1 DEF SkipFrame, Backward
  <2>2. CASE phase = "rollback"
    <3>1. /\ UNCHANGED <<dev, req, phase, step, op, todo, current, applied, unacked, rollbackErrors>>
          /\ rep # << >> /\ rep' = Tail(rep) /\ rep \in Seq(Reply)
      BY <1>4 DEF SkipFrame, TypeOK
    <3>2. \A i \in 1 .. Len(rep') : i + 1 \in 1 .. Len(rep) /\ rep'[i] = rep[i + 1]
      BY <3>1, TailFacts
    <3>3. Differ' = Differ
      BY <3>1 DEF Differ
    <3> QED BY <2>2, <3>1, <3>2, <3>3 DEF Backward
  <2> QED BY <1>4, <2>1, <2>2 DEF SkipFrame, Looping
<1>5. CASE SendQuery
  <2>1. CASE phase = "forward"
    BY <1>5, <2>1 DEF SendQuery, Backward
  <2>2. CASE phase = "rollback"
    <3>1. /\ UNCHANGED <<dev, rep, phase, op, todo, current, applied, unacked, rollbackErrors>>
          /\ req' = Append(req, Query(op)) /\ step = "query"
      BY <1>5 DEF SendQuery
    <3>2. Query(op) \in Request /\ Query(op).type = "query"
      BY SubsetFields, MessageTypes DEF TypeOK, Query
    <3>3. \A i \in 1 .. Len(req') : req'[i].type = "write" =>
            \/ req'[i].field \in unacked'
            \/ req'[i].field \in applied' /\ req'[i].value = current'[req'[i].field]
      BY <2>2, <3>1, <3>2, BackwardAppend
    <3>4. Differ' = Differ
      BY <3>1 DEF Differ
    <3> QED BY <2>2, <3>1, <3>3, <3>4 DEF Backward
  <2> QED BY <1>5, <2>1, <2>2 DEF SendQuery, Looping
<1>6. CASE RecvReading
  <2>1. CASE phase = "forward"
    BY <1>6, <2>1 DEF RecvReading, TakesReading, Advance, Backward
  <2>2. CASE phase = "rollback"
    <3>1. /\ UNCHANGED <<dev, req, op, current, applied, unacked>>
          /\ step = "reading" /\ rep # << >> /\ rep \in Seq(Reply)
          /\ Head(rep).type = "reading" /\ Head(rep).field = op
          /\ rollbackErrors' = (rollbackErrors \/ Head(rep).value # current[op])
          /\ todo' = todo \ {op} /\ step' = "next"
          /\ phase' = IF todo' # {} THEN phase ELSE "failed"
      BY <1>6, <2>2 DEF RecvReading, TakesReading, Advance, TypeOK
    <3>2. PICK n \in 0 .. Len(rep) : RestOfChunkDropped(n)
      BY <1>6 DEF RecvReading, TakesReading
    <3>3. Differ' = Differ
      BY <3>1 DEF Differ
    <3>4. op \in applied /\ Head(rep) = rep[1] /\ 1 \in 1 .. Len(rep)
      BY <2>2, <3>1, TailFacts DEF Backward
    <3>5. ~ rollbackErrors' => dev[op] = current[op]
      BY <2>2, <3>1, <3>4 DEF Backward
    <3>6. ~ rollbackErrors' => Differ \subseteq unacked \cup (todo \ {op})
      BY <2>2, <3>1, <3>5 DEF Backward, Differ, TypeOK
    <3>7. \A i \in 1 .. Len(rep') :
             rep'[i].type = "reading" /\ rep'[i].field \in applied'
             /\ rep'[i].value = current'[rep'[i].field]
             => dev'[rep'[i].field] = current'[rep'[i].field]
      BY <2>2, <3>1, <3>2, BackwardDrop
    <3> QED BY <2>2, <3>1, <3>3, <3>6, <3>7 DEF Backward
  <2> QED BY <1>6, <2>1, <2>2 DEF RecvReading, TakesReading, Looping
<1>7. CASE TransportFails
  <2>1. (IF step = "ack" THEN {op} ELSE {}) \in SUBSET Restorable
    BY DEF TypeOK
  <2>2. CASE phase = "forward"
    BY <1>7, <2>1, <2>2, BackwardEnter DEF TransportFails
  <2>3. CASE phase = "rollback"
    <3>1. 0 \in 0 .. Len(rep) /\ RestOfChunkDropped(0)
      BY <1>7, ReplyUnread DEF TransportFails, TypeOK
    <3> QED BY <1>7, <2>1, <2>3, <3>1, BackwardRaise DEF TransportFails
  <2> QED BY <1>7, <2>2, <2>3 DEF TransportFails, Looping
<1>8. CASE EncodingFails
  <2>1. {} \in SUBSET Restorable
    OBVIOUS
  <2>2. CASE phase = "forward"
    <3>1. step = "next" /\ Raise({}) /\ UNCHANGED env
      BY <1>8 DEF EncodingFails
    <3> QED BY <2>1, <2>2, <3>1, BackwardEnter
  <2>3. CASE phase = "rollback"
    <3>1. 0 \in 0 .. Len(rep) /\ RestOfChunkDropped(0)
      BY <1>8, ReplyUnread DEF EncodingFails, TypeOK
    <3> QED BY <1>8, <2>1, <2>3, <3>1, BackwardRaise DEF EncodingFails
  <2> QED BY <1>8, <2>2, <2>3 DEF EncodingFails, Looping
<1>9. CASE RecvRefusal \/ RecvResponseToQuery \/ ReadbackDiffers
  <2>1. {} \in SUBSET Restorable
    OBVIOUS
  <2>2. PICK n \in 1 .. Len(rep) : RestOfChunkDropped(n)
    BY <1>9 DEF RecvRefusal, RecvResponseToQuery, ReadbackDiffers, TakesReading
  <2>3. Raise({}) /\ UNCHANGED <<dev, req>> /\ rep # << >> /\ Looping
    BY <1>9 DEF RecvRefusal, RecvResponseToQuery, ReadbackDiffers, TakesReading
  <2>4. CASE phase = "forward"
    <3>1. req = << >> /\ rep' = << >> /\ Head(rep) = rep[1] /\ 1 \in 1 .. Len(rep)
      BY <2>2, <2>3, <2>4, ForwardDrop
    <3>2. Differ \subseteq applied
      <4>1. CASE RecvRefusal
        BY <2>4, <3>1, <4>1 DEF RecvRefusal, Forward
      <4>2. CASE RecvResponseToQuery \/ ReadbackDiffers
        BY <2>4, <4>2 DEF RecvResponseToQuery, ReadbackDiffers, TakesReading, Forward
      <4> QED BY <1>9, <4>1, <4>2
    <3> QED BY <2>1, <2>3, <2>4, <3>1, <3>2, BackwardEnter
  <2>5. CASE phase = "rollback"
    BY <2>1, <2>2, <2>3, <2>5, BackwardRaise
  <2> QED BY <2>3, <2>4, <2>5 DEF Looping
<1>10. CASE PostBackupEqual
  BY <1>10 DEF PostBackupEqual, Backward
<1>11. CASE PostBackupFails
  <2>1. /\ phase = "post" /\ phase' = "abort" /\ unacked' = {}
        /\ UNCHANGED <<dev, req, rep, applied, current>>
    BY <1>11 DEF PostBackupFails, Forward
  <2>2. (\A i \in 1 .. Len(req) : req[i].type = "query") /\ Truthful
    BY <2>1 DEF Checked
  <2>3. Differ' = Differ /\ Differ \subseteq applied
    BY <2>1 DEF Differ, Forward
  <2> QED BY <2>1, <2>2, <2>3 DEF Backward, Truthful
<1>12. CASE OpenForRollback
  <2>1. /\ phase = "abort" /\ phase' = "rollback" /\ step' = "next" /\ todo' = applied
        /\ UNCHANGED <<dev, req, op, current, applied, unacked, rollbackErrors>>
    BY <1>12 DEF OpenForRollback
  <2>2. PICK n \in 0 .. Len(rep) : RestOfChunkDropped(n)
    BY <1>12 DEF OpenForRollback
  <2>3. Differ' = Differ
    BY <2>1 DEF Differ
  <2> QED BY <2>1, <2>2, <2>3, BackwardDrop DEF Backward
<1>13. CASE OpenFails \/ NothingToRollBack
  BY <1>13 DEF OpenFails, NothingToRollBack, Backward, Differ
<1>14. CASE BackupStep
  BY <1>14, BackupChanges DEF Backward
<1> QED
  BY <1>1, <1>2, <1>3, <1>4, <1>5, <1>6, <1>7, <1>8, <1>9, <1>10, <1>11,
     <1>12, <1>13, <1>14 DEF HostStep, BackupStep

\* What a write disturbs is a trait of the node.
LEMMA CoupledFixed == [Next]_vars => coupled' = coupled
  BY BackupChanges DEF BackupStep, Next, vars, NodeStep, LoseMessage, HostStep, svc, Refuse, Begin, env,
         SendWrite, RecvAck, SkipFrame, SendQuery, RecvReading, TransportFails,
         EncodingFails, RecvRefusal, RecvResponseToQuery, ReadbackDiffers, Raise,
         PostBackupEqual, PostBackupFails, OpenForRollback, OpenFails,
         NothingToRollBack

LEMMA QuietInit == Init => Forward /\ Backward
<1> SUFFICES ASSUME Init PROVE Forward /\ Backward
  OBVIOUS
<1>1. phase = "start" /\ step = "next" /\ dev = current /\ applied = {} /\ unacked = {}
  BY DEF Init
<1> QED BY <1>1 DEF Forward, Backward

\* Both hold together of every node whose writes change one field.
LEMMA QuietInv == Spec => [](~ coupled => Forward /\ Backward)
<1> DEFINE Quiet == ~ coupled => Forward /\ Backward
<1>1. TypeOK /\ Discipline /\ Checked /\ Quiet /\ [Next]_vars => Quiet'
  <2> SUFFICES ASSUME TypeOK, Discipline, Checked, Quiet, [Next]_vars, ~ coupled'
               PROVE  Forward' /\ Backward'
    OBVIOUS
  <2>0. ~ coupled /\ Forward /\ Backward
    BY CoupledFixed
  <2>1. CASE UNCHANGED vars
    BY <2>0, <2>1 DEF vars, Forward, Backward, Differ
  <2>2. CASE HostStep
    BY <2>0, <2>2, ForwardHost, BackwardHost
  <2>3. CASE NodeStep
    BY <2>0, <2>3, ForwardNode, BackwardNode
  <2>4. CASE LoseMessage
    BY <2>0, <2>4, ForwardLose, BackwardLose
  <2> QED BY <2>1, <2>2, <2>3, <2>4 DEF Next
<1>2. Init => Quiet
  BY QuietInit
<1> QED
  BY <1>1, <1>2, TypeCorrect, DisciplineInv, PTL DEF Spec

\* An apply_restore that fails and reports no rollback error has put every
\* field back, except for at most the one write it sent and saw no
\* acknowledgement of; for nodes whose writes disturb no other field, over
\* any line, with stale replies of the abandoned operation and late requests.
THEOREM CleanFailure == Spec => []OnlyUnackedMayDiffer
<1>1. (~ coupled => Forward /\ Backward) => OnlyUnackedMayDiffer
  BY DEF Backward, OnlyUnackedMayDiffer, Differ
<1> QED
  BY <1>1, QuietInv, PTL

-----------------------------------------------------------------------------
(* The loop goes on only from a verified operation. *)

\* Every acknowledged operation but the one being read back is at its target.
Confirmed ==
  phase = "forward" =>
    \A f \in applied \ (IF step \in {"query", "reading"} THEN {op} ELSE {}) :
      dev[f] = target[f]

LEMMA ConfirmedNode ==
  ASSUME TypeOK, ~ coupled, Discipline, Forward, Confirmed, NodeStep
  PROVE  Confirmed'
<1>1. UNCHANGED <<phase, step, op, todo, target, current, applied>>
  BY DEF NodeStep, snap
<1> SUFFICES ASSUME phase = "forward" PROVE Confirmed'
  BY <1>1 DEF Confirmed
<1>2. PICK m \in Request, r \in Reply :
        /\ Serve(m)
        /\ \/ dev' = dev
           \/ /\ m.type = "write" /\ dev' = [dev EXCEPT ![m.field] = m.value]
  BY NodeEffect
<1>3. req # << >> /\ req \in Seq(Request) /\ Len(req) <= 1
  BY <1>2 DEF Serve, Discipline, TypeOK
<1>4. m = req[1] /\ 1 \in 1 .. Len(req)
  BY <1>2, <1>3, SingleFacts DEF Serve
<1>5. CASE dev' = dev
  BY <1>1, <1>5 DEF Confirmed
<1>6. CASE m.type = "write" /\ dev' = [dev EXCEPT ![m.field] = m.value]
  <2>1. step = "ack" /\ m.field = op
    BY <1>4, <1>6 DEF Discipline, Write, Query
  <2>2. op \notin applied
    BY <2>1 DEF Forward
  <2>3. \A f \in applied : dev'[f] = dev[f]
    BY <1>6, <2>1, <2>2, SubsetFields DEF TypeOK
  <2> QED BY <1>1, <2>1, <2>3 DEF Confirmed
<1> QED BY <1>2, <1>5, <1>6

LEMMA ConfirmedHost ==
  ASSUME TypeOK, Discipline, Forward, Confirmed, HostStep
  PROVE  Confirmed'
<1> USE DEF env, svc, snap
<1>1. CASE Refuse \/ PostBackupEqual \/ PostBackupFails \/ OpenForRollback
           \/ OpenFails \/ NothingToRollBack
  BY <1>1 DEF Refuse, PostBackupEqual, PostBackupFails, OpenForRollback,
              OpenFails, NothingToRollBack, Confirmed
<1>2. CASE Begin
  BY <1>2 DEF Begin, Forward, Confirmed
<1>3. CASE SendWrite
  BY <1>3 DEF SendWrite, Confirmed
<1>4. CASE RecvAck
  BY <1>4 DEF RecvAck, Confirmed
<1>5. CASE SkipFrame \/ SendQuery
  BY <1>5 DEF SkipFrame, SendQuery, Confirmed
<1>6. CASE RecvReading
  <2>1. CASE phase = "forward"
    <3>1. PICK n \in 1 .. Len(rep) : RestOfChunkDropped(n)
      BY <1>6 DEF RecvReading, TakesReading
    <3>2. Head(rep) = rep[1] /\ 1 \in 1 .. Len(rep)
      BY <1>6, <2>1, <3>1, ForwardDrop DEF RecvReading, TakesReading
    <3>3. dev[op] = target[op]
      BY <1>6, <2>1, <3>2 DEF RecvReading, TakesReading, Forward
    <3> QED BY <1>6, <2>1, <3>3 DEF RecvReading, TakesReading, Advance, Confirmed
  <2>2. CASE phase # "forward"
    BY <1>6, <2>2 DEF RecvReading, TakesReading, Advance, Looping, Confirmed
  <2> QED BY <2>1, <2>2
<1>7. CASE \/ TransportFails \/ EncodingFails \/ RecvRefusal
          \/ RecvResponseToQuery \/ ReadbackDiffers
  <2>1. phase' \in {"abort", "failed"}
    BY <1>7 DEF TransportFails, EncodingFails, RecvRefusal,
                RecvResponseToQuery, ReadbackDiffers, Raise
  <2> QED BY <2>1 DEF Confirmed
<1>8. CASE BackupStep
  BY <1>8, BackupChanges DEF Confirmed
<1> QED
  BY <1>1, <1>2, <1>3, <1>4, <1>5, <1>6, <1>7, <1>8 DEF HostStep, BackupStep

\* On a node whose writes change one field, apply_restore writes an operation
\* only when the node itself has every earlier one at its target and every
\* later one at its old value: the readings it took are still true.
THEOREM EachVerified == Spec => []VerifiedBeforeNext
<1> DEFINE Sound == ~ coupled => Confirmed
<1> DEFINE Quiet == ~ coupled => Forward /\ Backward
<1>1. TypeOK /\ Discipline /\ Quiet /\ Sound /\ [Next]_vars => Sound'
  <2> SUFFICES ASSUME TypeOK, Discipline, Quiet, Sound, [Next]_vars, ~ coupled'
               PROVE  Confirmed'
    OBVIOUS
  <2>0. ~ coupled /\ Forward /\ Confirmed
    BY CoupledFixed
  <2>1. CASE UNCHANGED vars
    BY <2>0, <2>1 DEF vars, Confirmed
  <2>2. CASE HostStep
    BY <2>0, <2>2, ConfirmedHost
  <2>3. CASE NodeStep
    BY <2>0, <2>3, ConfirmedNode
  <2>4. CASE LoseMessage
    BY <2>0, <2>4 DEF LoseMessage, Confirmed, snap
  <2> QED BY <2>1, <2>2, <2>3, <2>4 DEF Next
<1>2. Init => Sound
  BY DEF Init, Confirmed
<1>3. TypeOK /\ Quiet /\ Sound => VerifiedBeforeNext
  <2> SUFFICES ASSUME TypeOK, Quiet, Sound, ~ coupled, phase = "forward", step = "next"
               PROVE  /\ \A f \in applied : dev[f] = target[f]
                      /\ \A f \in todo : dev[f] = current[f]
    BY DEF VerifiedBeforeNext
  <2>1. \A f \in applied : dev[f] = target[f]
    BY DEF Confirmed
  <2>2. Differ \subseteq applied /\ todo \cap applied = {} /\ todo \subseteq Field
    BY SubsetFields DEF Forward, TypeOK
  <2> QED BY <2>1, <2>2 DEF Differ
<1>4. Spec => []Quiet
  BY QuietInv
<1>5. Spec => []Sound
  BY <1>1, <1>2, <1>4, TypeCorrect, DisciplineInv, PTL DEF Spec
<1> QED
  BY <1>3, <1>4, <1>5, TypeCorrect, PTL

-----------------------------------------------------------------------------
(* apply_restore keeps its promise, step by step. *)

OldOrNew(m) == m.value \in {current[m.field], target[m.field]}

\* What the refinement needs of every node, a coupled one too: each pending
\* write is to an old or a new value, a refused restore has sent none, and at
\* most one operation is in doubt.
Writes ==
  /\ phase = "start" => dev = current
  /\ phase = "refused" => req = << >>
  /\ \A i \in 1 .. Len(req) : req[i].type = "write" => OldOrNew(req[i])
  /\ unacked \in {{}} \cup {{f} : f \in Field}

LEMMA WritesInit == Init => Writes
  BY DEF Init, Writes

LEMMA WritesAppend ==
  ASSUME TypeOK, Writes, NEW m \in Request, req' = Append(req, m),
         m.type = "write" => OldOrNew(m), UNCHANGED <<current, target>>
  PROVE  \A i \in 1 .. Len(req') : req'[i].type = "write" => OldOrNew(req[i])'
<1> SUFFICES ASSUME NEW i \in 1 .. Len(req'), req'[i].type = "write"
             PROVE  OldOrNew(req[i])'
  OBVIOUS
<1>1. req \in Seq(Request)
  BY DEF TypeOK
<1>2. CASE i \in 1 .. Len(req)
  <2>1. req'[i] = req[i]
    BY <1>1, <1>2, AppendFacts
  <2> QED BY <1>2, <2>1 DEF Writes, OldOrNew
<1>3. CASE i = Len(req) + 1
  <2>1. req'[i] = m
    BY <1>1, <1>3, AppendFacts
  <2> QED BY <2>1 DEF OldOrNew
<1> QED BY <1>1, <1>2, <1>3, AppendFacts

LEMMA WritesTail ==
  ASSUME TypeOK, Writes, req # << >>, req' = Tail(req), UNCHANGED <<current, target>>
  PROVE  \A i \in 1 .. Len(req') : req'[i].type = "write" => OldOrNew(req[i])'
<1>1. \A i \in 1 .. Len(req') : i + 1 \in 1 .. Len(req) /\ req'[i] = req[i + 1]
  BY TailFacts DEF TypeOK
<1> QED BY <1>1 DEF Writes, OldOrNew

LEMMA WritesNode ==
  ASSUME TypeOK, Discipline, Writes, NodeStep
  PROVE  Writes'
<1>1. PICK m \in Request : Serve(m)
  BY DEF NodeStep, NodeStores, NodeIgnores, NodeRefuses, NodeAnswers
<1>2. req # << >> /\ req' = Tail(req)
      /\ UNCHANGED <<phase, current, target, unacked>>
  BY <1>1 DEF Serve, NodeStep, snap
<1>3. phase # "start" /\ phase # "refused"
  BY <1>2 DEF Discipline, Waiting, Writes
<1>4. \A i \in 1 .. Len(req') : req'[i].type = "write" => OldOrNew(req[i])'
  BY <1>2, WritesTail
<1> QED BY <1>2, <1>3, <1>4 DEF Writes

LEMMA WritesLose ==
  ASSUME TypeOK, Writes, LoseMessage
  PROVE  Writes'
<1>1. UNCHANGED <<dev, phase, current, target, unacked>>
  BY DEF LoseMessage, snap
<1>2. CASE req # << >> /\ req' = Tail(req)
  <2>1. \A i \in 1 .. Len(req') : req'[i].type = "write" => OldOrNew(req[i])'
    BY <1>1, <1>2, WritesTail
  <2>2. phase # "refused"
    BY <1>2 DEF Writes
  <2> QED BY <1>1, <2>1, <2>2 DEF Writes
<1>3. CASE UNCHANGED req
  BY <1>1, <1>3 DEF Writes, OldOrNew
<1> QED BY <1>2, <1>3 DEF LoseMessage, Lost

\* The steps of the host that leave the requests alone.
LEMMA WritesKept ==
  ASSUME TypeOK, Writes, UNCHANGED <<req, current, target>>,
         phase' # "start",
         phase' = "refused" => req = << >>,
         unacked' \in {{}, {op}, unacked}
  PROVE  Writes'
  BY SubsetFields DEF Writes, OldOrNew, TypeOK

LEMMA WritesHost ==
  ASSUME TypeOK, Discipline, Writes, HostStep
  PROVE  Writes'
<1> USE DEF env, svc, snap
<1>1. CASE Refuse
  BY <1>1, WritesKept DEF Refuse, Discipline, Waiting
<1>2. CASE Begin
  <2>1. req = << >> /\ req' = << >> /\ phase' = "forward" /\ unacked' = unacked
    BY <1>2 DEF Begin, Discipline, Waiting
  <2> QED BY <2>1 DEF Writes
<1>3. CASE SendWrite
  <2>1. PICK f \in Restorable : req' = Append(req, Write(f, Wanted(f)))
    BY <1>3 DEF SendWrite
  <2>2. Write(f, Wanted(f)) \in Request /\ OldOrNew(Write(f, Wanted(f)))
    BY SubsetFields, MessageTypes DEF Wanted, TypeOK, OldOrNew, Write
  <2>3. UNCHANGED <<phase, current, target, unacked>> /\ phase \in {"forward", "rollback"}
    BY <1>3 DEF SendWrite, Looping
  <2>4. \A i \in 1 .. Len(req') : req'[i].type = "write" => OldOrNew(req[i])'
    BY <2>1, <2>2, <2>3, WritesAppend
  <2> QED BY <2>3, <2>4 DEF Writes
<1>4. CASE RecvAck \/ SkipFrame
  BY <1>4, WritesKept DEF RecvAck, SkipFrame, Looping
<1>5. CASE SendQuery
  <2>1. req' = Append(req, Query(op)) /\ Query(op) \in Request /\ Query(op).type = "query"
    BY <1>5, SubsetFields, MessageTypes DEF SendQuery, Query, TypeOK
  <2>2. UNCHANGED <<phase, current, target, unacked>> /\ phase \in {"forward", "rollback"}
    BY <1>5 DEF SendQuery, Looping
  <2>3. \A i \in 1 .. Len(req') : req'[i].type = "write" => OldOrNew(req[i])'
    BY <2>1, <2>2, WritesAppend
  <2> QED BY <2>2, <2>3 DEF Writes
<1>6. CASE RecvReading
  BY <1>6, WritesKept DEF RecvReading, TakesReading, Advance, Looping
<1>7. CASE \/ TransportFails \/ EncodingFails \/ RecvRefusal
          \/ RecvResponseToQuery \/ ReadbackDiffers
  <2>1. /\ phase' \in {"abort", "failed"}
        /\ unacked' \in {{}, {op}, unacked}
        /\ UNCHANGED <<req, current, target>>
    BY <1>7 DEF TransportFails, EncodingFails, RecvRefusal,
                RecvResponseToQuery, ReadbackDiffers, Raise
  <2> QED BY <2>1, WritesKept
<1>8. CASE \/ PostBackupEqual \/ PostBackupFails
          \/ OpenForRollback \/ OpenFails \/ NothingToRollBack
  BY <1>8, WritesKept
  DEF PostBackupEqual, PostBackupFails, OpenForRollback, OpenFails, NothingToRollBack
<1>9. CASE QueryForBackup
  <2>1. /\ req' = Append(req, Query(Asked))
        /\ Query(Asked) \in Request /\ Query(Asked).type = "query"
    BY <1>9, AskedField DEF QueryForBackup, Query
  <2>2. UNCHANGED <<phase, current, target, unacked>> /\ phase = "post"
    BY <1>9, BackupChanges DEF BackupStep
  <2>3. \A i \in 1 .. Len(req') : req'[i].type = "write" => OldOrNew(req[i])'
    BY <2>1, <2>2, WritesAppend
  <2> QED BY <2>2, <2>3 DEF Writes
<1>10. CASE BackupReading \/ BackupMisses \/ BackupSkips \/ BackupReconnects
  <2>1. UNCHANGED <<phase, current, target, unacked>> /\ phase = "post"
    BY <1>10, BackupChanges DEF BackupStep
  <2>2. req' = req
    BY <1>10 DEF BackupReading, BackupMisses, BackupSkips, BackupReconnects, Result
  <2> QED BY <2>1, <2>2, WritesKept
<1> QED
  BY <1>1, <1>2, <1>3, <1>4, <1>5, <1>6, <1>7, <1>8, <1>9, <1>10 DEF HostStep

LEMMA WritesInv == Spec => []Writes
<1>1. TypeOK /\ Discipline /\ Writes /\ [Next]_vars => Writes'
  <2> SUFFICES ASSUME TypeOK, Discipline, Writes, [Next]_vars PROVE Writes'
    OBVIOUS
  <2>1. CASE UNCHANGED vars
    BY <2>1 DEF vars, Writes, OldOrNew
  <2> QED BY <2>1, WritesHost, WritesNode, WritesLose DEF Next
<1> QED
  BY <1>1, WritesInit, TypeCorrect, DisciplineInv, PTL DEF Spec

\* A step that changes nothing the caller sees.
LEMMA Unseen ==
  ASSUME UNCHANGED <<dev, current, target, unacked, coupled>>,
         \/ UNCHANGED <<phase, rollbackErrors>>
         \/ phase \notin Ended /\ phase' \notin Ended
  PROVE  UNCHANGED Promise!vars
  BY DEF Promise!vars, Ended

\* The end of apply_restore.
LEMMA Decided ==
  ASSUME TypeOK', phase \notin Ended, phase' \in Ended,
         UNCHANGED <<dev, current, target, unacked, coupled>>,
         phase' = "refused" => dev = current,
         phase' = "restored" => dev = target,
         phase' = "failed" /\ ~ rollbackErrors' /\ ~ coupled => Differ \subseteq unacked
  PROVE  Promise!Decide
<1>1. CASE phase' = "refused"
  BY <1>1 DEF Promise!Decide, Promise!Refuse, Ended
<1>2. CASE phase' = "restored"
  BY <1>2 DEF Promise!Decide, Promise!Restore, Ended
<1>3. CASE phase' = "failed"
  BY <1>3 DEF Promise!Decide, Promise!Fail, Promise!Differing, Differ, Ended, TypeOK
<1> QED BY <1>1, <1>2, <1>3 DEF Ended

\* An exception of the forward loop, which may leave an operation in doubt.
LEMMA Doubted ==
  ASSUME TypeOK, phase \notin Ended, phase' \notin Ended,
         UNCHANGED <<dev, current, target, coupled>>,
         unacked' \in {{}, {op}}
  PROVE  Promise!Work
<1>1. unacked' \in {{}} \cup {{f} : f \in Field}
  BY SubsetFields DEF TypeOK
<1> QED BY <1>1 DEF Promise!Work, Ended

LEMMA HostMapped ==
  ASSUME TypeOK, TypeOK', Discipline, Checked', Writes,
         ~ coupled => Backward', coupled' = coupled, HostStep
  PROVE  [Promise!Next]_(Promise!vars)
<1> USE DEF env, svc, snap
<1>1. CASE Refuse
  <2>1. Promise!Decide
    BY <1>1, Decided DEF Refuse, Writes, Ended
  <2> QED BY <2>1 DEF Promise!Next
<1>2. CASE Begin
  BY <1>2, Unseen DEF Begin, Writes, Ended
<1>3. CASE SendWrite \/ RecvAck \/ SkipFrame \/ SendQuery
  BY <1>3, Unseen DEF SendWrite, RecvAck, SkipFrame, SendQuery
<1>4. CASE RecvReading
  <2>1. UNCHANGED <<dev, current, target, unacked>>
        /\ phase \notin Ended /\ phase' \in {phase, "post", "failed"}
    BY <1>4 DEF RecvReading, TakesReading, Advance, Looping, Ended
  <2>2. CASE phase' = "failed"
    <3>1. Promise!Decide
      BY <2>1, <2>2, Decided DEF Backward, Differ, Ended
    <3> QED BY <3>1 DEF Promise!Next
  <2>3. CASE phase' # "failed"
    BY <2>1, <2>3, Unseen DEF Ended
  <2> QED BY <2>2, <2>3
<1>5. CASE \/ TransportFails \/ EncodingFails \/ RecvRefusal
          \/ RecvResponseToQuery \/ ReadbackDiffers
  <2>1. UNCHANGED <<dev, current, target>> /\ phase \in {"forward", "rollback"}
    BY <1>5 DEF TransportFails, EncodingFails, RecvRefusal,
                RecvResponseToQuery, ReadbackDiffers, TakesReading, Looping, Raise
  <2>2. CASE phase = "forward"
    <3>1. phase' = "abort" /\ unacked' \in {{}, {op}}
      BY <1>5, <2>2 DEF TransportFails, EncodingFails, RecvRefusal,
                        RecvResponseToQuery, ReadbackDiffers, Raise
    <3>2. Promise!Work
      BY <2>1, <2>2, <3>1, Doubted DEF Ended
    <3> QED BY <3>2 DEF Promise!Next
  <2>3. CASE phase = "rollback"
    <3>1. phase' = "failed" /\ rollbackErrors' /\ unacked' = unacked
      BY <1>5, <2>3 DEF TransportFails, EncodingFails, RecvRefusal,
                        RecvResponseToQuery, ReadbackDiffers, Raise
    <3>2. Promise!Decide
      BY <2>1, <2>3, <3>1, Decided DEF Ended
    <3> QED BY <3>2 DEF Promise!Next
  <2> QED BY <2>1, <2>2, <2>3
<1>6. CASE PostBackupEqual
  <2>1. phase' = "restored" /\ UNCHANGED <<dev, target>> /\ dev' = target'
    BY <1>6 DEF PostBackupEqual, Checked
  <2>2. Promise!Decide
    BY <1>6, <2>1, Decided DEF PostBackupEqual, Ended
  <2> QED BY <2>2 DEF Promise!Next
<1>7. CASE PostBackupFails \/ OpenForRollback
  BY <1>7, Unseen DEF PostBackupFails, OpenForRollback, Ended
<1>8. CASE OpenFails \/ NothingToRollBack
  <2>1. /\ UNCHANGED <<dev, current, target, unacked>>
        /\ phase \notin Ended /\ phase' = "failed"
    BY <1>8 DEF OpenFails, NothingToRollBack, Ended
  <2>2. Promise!Decide
    BY <2>1, Decided DEF Backward, Differ, Ended
  <2> QED BY <2>2 DEF Promise!Next
<1>9. CASE BackupStep
  BY <1>9, BackupChanges, Unseen
<1> QED
  BY <1>1, <1>2, <1>3, <1>4, <1>5, <1>6, <1>7, <1>8, <1>9 DEF HostStep, BackupStep

\* A served write is a change the promise allows, as long as the transaction
\* runs and after it failed; a rollback write served after a clean failure
\* finds the old value already there.
LEMMA NodeMapped ==
  ASSUME TypeOK, Checked, Writes, ~ coupled => Backward, NodeStep
  PROVE  [Promise!Next]_(Promise!vars)
<1>1. PICK m \in Request : Serve(m) /\ (NodeStores => m.type = "write" /\
        \/ dev' = [dev EXCEPT ![m.field] = m.value]
        \/ coupled /\ \E g \in Disturbs \ {m.field}, w \in Value :
             dev' = [dev EXCEPT ![m.field] = m.value, ![g] = w])
  BY DEF NodeStep, NodeStores, NodeIgnores, NodeRefuses, NodeAnswers
<1>2. UNCHANGED <<phase, current, target, coupled, unacked, rollbackErrors>>
  BY DEF NodeStep, snap, svc
<1>3. req # << >> /\ m = req[1] /\ 1 \in 1 .. Len(req) /\ m.field \in Field
  BY <1>1, TailFacts DEF Serve, TypeOK, Request
<1>4. phase # "refused" /\ (phase = "restored" => dev' = dev)
  BY <1>3, QueriesServed DEF Writes, Checked
<1>5. CASE dev' = dev
  BY <1>2, <1>5, Unseen
<1>6. CASE dev' # dev
  <2>1. NodeStores /\ m.type = "write" /\ OldOrNew(m)
    BY <1>1, <1>3, <1>6 DEF NodeStep, NodeIgnores, NodeRefuses, NodeAnswers, Writes
  <2>2. Promise!Change(m.field)
    BY <1>1, <1>3, <2>1 DEF Promise!Change, OldOrNew
  <2>3. CASE phase = "failed"
    <3>1. CASE ~ rollbackErrors /\ ~ coupled
      <4>1. dev' = [dev EXCEPT ![m.field] = m.value]
        BY <1>1, <2>1, <3>1
      <4>2. m.field \notin unacked => dev[m.field] = current[m.field] /\ m.value = current[m.field]
        BY <1>3, <2>1, <2>3, <3>1 DEF Backward, Differ
      <4>3. m.field \in unacked
        BY <1>6, <4>1, <4>2 DEF TypeOK
      <4> QED
        BY <1>2, <2>2, <2>3, <3>1, <4>3 DEF Promise!Next, Promise!Late, Ended
    <3>2. CASE rollbackErrors \/ coupled
      BY <1>2, <1>3, <2>2, <2>3, <3>2 DEF Promise!Next, Promise!Late, Ended
    <3> QED BY <3>1, <3>2 DEF TypeOK
  <2>4. CASE phase # "failed"
    <3>1. phase \notin Ended
      BY <1>4, <1>6, <2>4 DEF Ended
    <3>2. unacked' \in {{}} \cup {{f} : f \in Field}
      BY <1>2 DEF Writes
    <3>3. Promise!Work
      BY <1>2, <1>3, <2>2, <3>1, <3>2 DEF Promise!Work
    <3> QED BY <3>3 DEF Promise!Next
  <2> QED BY <2>3, <2>4
<1> QED BY <1>5, <1>6

\* Every behaviour of apply_restore, of the node and of the line is one that
\* RestorePromise allows: the outcome, what a failure leaves behind and what may
\* still change afterwards are the caller's to rely on.  (That an outcome is
\* always reached is the other half of KeepsPromise, and needs fairness.)
THEOREM KeepsPromiseSafely == Spec => Promise!Init /\ [][Promise!Next]_(Promise!vars)
<1> DEFINE Quiet == ~ coupled => Forward /\ Backward
<1>1. Init => Promise!Init
  BY DEF Init, Promise!Init, Ended
<1>2. /\ TypeOK /\ TypeOK' /\ Discipline /\ Checked /\ Checked' /\ Writes
      /\ Quiet /\ Quiet' /\ [Next]_vars
      => [Promise!Next]_(Promise!vars)
  <2> SUFFICES ASSUME TypeOK, TypeOK', Discipline, Checked, Checked', Writes,
                      Quiet, Quiet', [Next]_vars
               PROVE  [Promise!Next]_(Promise!vars)
    OBVIOUS
  <2>0. coupled' = coupled
    BY CoupledFixed
  <2>1. CASE UNCHANGED vars
    BY <2>1, Unseen DEF vars
  <2>2. CASE HostStep
    BY <2>0, <2>2, HostMapped
  <2>3. CASE NodeStep
    BY <2>3, NodeMapped
  <2>4. CASE LoseMessage
    BY <2>4, Unseen DEF LoseMessage, svc, snap
  <2> QED BY <2>1, <2>2, <2>3, <2>4 DEF Next
<1>3. Spec => []Quiet
  BY QuietInv
<1> QED
  BY <1>1, <1>2, <1>3, TypeCorrect, DisciplineInv, WritesInv, PTL DEF Spec
=============================================================================
