------------------------- MODULE RestoreTransaction -------------------------
(***************************************************************************)
(* DeviceService.apply_restore (tools/device_service.py): the guarded      *)
(* restore of a configuration snapshot onto a TIL90 node over a serial     *)
(* line.  Every operation of the plan is written, acknowledged and read    *)
(* back in turn; a complete second backup is then compared with the target *)
(* and any exception starts one rollback of the acknowledged operations.   *)
(*                                                                         *)
(* The node and the line are the environment: the node serves the requests *)
(* in the order they were sent, as late as it likes, and may refuse one,   *)
(* acknowledge a write it does not store, or lose a request or a reply.    *)
(* A response (AM type 0x00) carries a code and nothing that says which    *)
(* request it answers.                                                     *)
(***************************************************************************)
EXTENDS Naturals, Sequences, FiniteSets

CONSTANTS
  MaxValue,   \* largest value of a configuration field
  Deployed,   \* configurations the node may have when the restore starts
  Backups,    \* configurations of the snapshots an operator may restore
  Disturbs,   \* fields a write may change besides the one it names
  Validated,  \* sets of operations the service may be told are validated
  Retries,    \* read_retries: connections a backup may lose
  MaxPending  \* bound: messages on the line when a backup sends a query

\* The three restorable fields, and "calibration" for every other field.
Restorable == {"sampling", "channels", "radio_slot_time"}
Field == Restorable \cup {"calibration"}
Value == 0 .. MaxValue

\* What validate_snapshot accepts: the slot time alone may be 0.
Config == {c \in [Field -> Value] : c["sampling"] # 0 /\ c["channels"] # 0}

ASSUME ConstantsAssumption ==
  /\ MaxValue \in Nat
  /\ Deployed \subseteq Config
  /\ Backups \subseteq Config
  /\ Disturbs \subseteq Field
  /\ Validated \subseteq SUBSET Restorable
  /\ Retries \in Nat /\ MaxPending \in Nat

\* The order in which build_restore_plan lists the operations.
Rank(f) == CASE f = "sampling" -> 1
             [] f = "channels" -> 2
             [] OTHER -> 3

\* The order in which backup() queries the fields.
BackupOrder == <<"sampling", "calibration", "channels", "radio_slot_time">>

\* What a query of the backup brought that failed.
NoReading == MaxValue + 1

Write(f, v) == [type |-> "write", field |-> f, value |-> v]
Query(f)    == [type |-> "query", field |-> f, value |-> 0]
Response(c) == [type |-> "response", code |-> c]
Reading(f, v) == [type |-> "reading", field |-> f, value |-> v]

Request == [type : {"write", "query"}, field : Field, value : Value]
Reply   == [type : {"response"}, code : {0, 1}]
             \cup [type : {"reading"}, field : Field, value : Value]

VARIABLES
  dev,             \* the node's configuration
  req,             \* requests sent and not yet served, oldest first
  rep,             \* replies sent and not yet read by the host, oldest first
  coupled,         \* do this node's writes disturb other fields?
  writesEnabled,   \* DeviceService.writes_enabled
  validated,       \* DeviceService.hardware_validated_writes
  phase,           \* where apply_restore is
  step,            \* what the loop body of the phase does next
  op,              \* `name`, the operation of the current iteration
  todo,            \* operations of the running loop not yet completed
  target, current, \* the two snapshots' configurations
  applied,         \* operations whose write was acknowledged
  backup,          \* results of the second backup so far, in BackupOrder
  lost,            \* connections it has lost
  rollbackErrors,  \* is rollback_errors non-empty?
  unacked          \* history: the operation that failed with its write sent
                   \* and not acknowledged

env  == <<dev, req, rep>>
svc  == <<writesEnabled, validated, coupled>>
snap == <<target, current>>
post == <<backup, lost>>
vars == <<dev, req, rep, coupled, writesEnabled, validated, phase, step, op,
          todo, target, current, applied, backup, lost, rollbackErrors, unacked>>

Ended == {"refused", "restored", "failed"}

TypeOK ==
  /\ dev \in [Field -> Value]
  /\ req \in Seq(Request)
  /\ rep \in Seq(Reply)
  /\ writesEnabled \in BOOLEAN /\ coupled \in BOOLEAN
  /\ validated \in SUBSET Restorable
  /\ phase \in {"start", "forward", "post", "abort", "rollback"} \cup Ended
  /\ step \in {"next", "ack", "query", "reading"}
  /\ op \in Restorable
  /\ todo \in SUBSET Restorable
  /\ target \in Config
  /\ current \in [Field -> Value]
  /\ applied \in SUBSET Restorable
  /\ backup \in Seq(Value \cup {NoReading})
  /\ lost \in 0 .. Retries
  /\ rollbackErrors \in BOOLEAN
  /\ unacked \in SUBSET Restorable

Init ==
  /\ dev \in Deployed
  /\ req = << >> /\ rep = << >>
  /\ writesEnabled \in BOOLEAN /\ coupled \in BOOLEAN
  /\ validated \in Validated
  /\ phase = "start" /\ step = "next"
  /\ op = "sampling" /\ todo = {} /\ applied = {} /\ unacked = {}
  /\ target \in Backups
  /\ current = dev
  /\ backup = << >> /\ lost = 0
  /\ rollbackErrors = FALSE

-----------------------------------------------------------------------------
(* The node and the line (external). *)

\* A request or a reply that never arrives: a corrupted frame, a lost byte.
Lost == \/ /\ req # << >> /\ req' = Tail(req) /\ UNCHANGED rep
        \/ /\ rep # << >> /\ rep' = Tail(rep) /\ UNCHANGED req

LoseMessage == Lost /\ UNCHANGED <<dev, svc, phase, step, op, todo, snap,
                                   applied, post, rollbackErrors, unacked>>

Serve(m) == /\ req # << >> /\ m = Head(req) /\ req' = Tail(req)

\* The write takes effect, on the named field and perhaps on a coupled one.
NodeStores ==
  \E m \in Request :
    /\ Serve(m) /\ m.type = "write"
    /\ rep' = Append(rep, Response(0))
    /\ \/ dev' = [dev EXCEPT ![m.field] = m.value]
       \/ coupled /\ \E g \in Disturbs \ {m.field}, w \in Value :
            dev' = [dev EXCEPT ![m.field] = m.value, ![g] = w]

\* The node acknowledges the write and keeps its old value.
NodeIgnores ==
  \E m \in Request :
    /\ Serve(m) /\ m.type = "write"
    /\ rep' = Append(rep, Response(0))
    /\ UNCHANGED dev

\* A nonzero response code, to a write or to a query.
NodeRefuses ==
  \E m \in Request :
    /\ Serve(m)
    /\ rep' = Append(rep, Response(1))
    /\ UNCHANGED dev

NodeAnswers ==
  \E m \in Request :
    /\ Serve(m) /\ m.type = "query"
    /\ rep' = Append(rep, Reading(m.field, dev[m.field]))
    /\ UNCHANGED dev

NodeStep ==
  /\ NodeStores \/ NodeIgnores \/ NodeRefuses \/ NodeAnswers
  /\ UNCHANGED <<svc, phase, step, op, todo, snap, applied, post, rollbackErrors,
                 unacked>>

-----------------------------------------------------------------------------
(* build_restore_plan and the guards in front of the first write. *)

Operations(c, t) == {f \in Restorable : c[f] # t[f]}
Blocked(c, t)    == {f \in Field \ Restorable : c[f] # t[f]}

\* encode_radio_slot_time_write refuses 0; the other fields are never 0.
Encodable(f, v) == f = "radio_slot_time" => v # 0

CanApply(c, t) ==
  /\ Operations(c, t) # {}
  /\ Blocked(c, t) = {}
  /\ Operations(c, t) \subseteq validated
  /\ \A f \in Operations(c, t) : Encodable(f, t[f])

\* An exception before the loop: nothing has been written.
Refuse ==
  /\ phase = "start"
  /\ phase' = "refused"
  /\ UNCHANGED <<env, svc, snap, step, op, todo, applied, post, rollbackErrors,
                 unacked>>

\* The backup of the idle node, the plan and the checks on it.
Begin ==
  /\ phase = "start"
  /\ writesEnabled
  /\ CanApply(dev, target)
  /\ current' = dev
  /\ todo' = Operations(dev, target)
  /\ phase' = "forward"
  /\ UNCHANGED <<env, svc, step, op, target, applied, post, rollbackErrors, unacked>>

-----------------------------------------------------------------------------
(* One iteration of the forward loop or of the rollback loop: both write,  *)
(* wait for the acknowledgement, query the field and compare the reading.  *)

Looping == phase \in {"forward", "rollback"}

\* The value the running loop writes and expects to read back.
Wanted(f) == IF phase = "forward" THEN target[f] ELSE current[f]

\* Plan order, and reversed(applied) in the rollback.
IsNext(f) ==
  /\ f \in todo
  /\ \A g \in todo : IF phase = "forward" THEN Rank(f) <= Rank(g)
                                          ELSE Rank(g) <= Rank(f)

SendWrite ==
  /\ Looping /\ step = "next"
  /\ \E f \in Restorable :
       /\ IsNext(f)
       /\ Encodable(f, Wanted(f))
       /\ op' = f
       /\ req' = Append(req, Write(f, Wanted(f)))
  /\ step' = "ack"
  /\ UNCHANGED <<dev, rep, svc, phase, todo, snap, applied, post, rollbackErrors,
                 unacked>>

\* Frames that follow the accepted one in the chunk read from the port are
\* dropped: the handler returns out of its loop and its parser dies with it.
RestOfChunkDropped(n) == rep' = SubSeq(rep, n + 1, Len(rep))

IsResponse(r, c) == r.type = "response" /\ r.code = c

\* _write_and_ack returns on any zero response.
RecvAck ==
  /\ Looping /\ step = "ack"
  /\ rep # << >> /\ IsResponse(Head(rep), 0)
  /\ \E n \in 1 .. Len(rep) : RestOfChunkDropped(n)
  /\ applied' = IF phase = "forward" THEN applied \cup {op} ELSE applied
  /\ step' = "query"
  /\ UNCHANGED <<dev, req, svc, phase, op, todo, snap, post, rollbackErrors, unacked>>

\* _write_and_ack passes over whatever is not a response, run_query over a
\* reading of another field.
SkipFrame ==
  /\ Looping /\ step \in {"ack", "reading"}
  /\ rep # << >> /\ Head(rep).type = "reading"
  /\ step = "reading" => Head(rep).field # op
  /\ rep' = Tail(rep)
  /\ UNCHANGED <<dev, req, svc, phase, step, op, todo, snap, applied, post,
                 rollbackErrors, unacked>>

SendQuery ==
  /\ Looping /\ step = "query"
  /\ req' = Append(req, Query(op))
  /\ step' = "reading"
  /\ UNCHANGED <<dev, rep, svc, phase, op, todo, snap, applied, post,
                 rollbackErrors, unacked>>

\* The first reading of the field is taken; the loop moves on, or to what
\* follows it.
Advance ==
  /\ todo' = todo \ {op}
  /\ step' = "next"
  /\ phase' = IF todo' # {} THEN phase
              ELSE IF phase = "forward" THEN "post" ELSE "failed"

TakesReading ==
  /\ Looping /\ step = "reading"
  /\ rep # << >> /\ Head(rep).type = "reading" /\ Head(rep).field = op
  /\ \E n \in 1 .. Len(rep) : RestOfChunkDropped(n)

\* Mutant: the forward loop takes any reading for a confirmation.
RecvReading_NotCompared ==
  /\ TakesReading
  /\ rollbackErrors' = (rollbackErrors
                          \/ (phase = "rollback" /\ Head(rep).value # current[op]))
  /\ Advance
  /\ UNCHANGED <<dev, req, svc, op, snap, applied, post, unacked>>

\* Mutant: the rollback does not record a reading that differs.
RecvReading_MismatchDropped ==
  /\ TakesReading
  /\ phase = "forward" => Head(rep).value = target[op]
  /\ Advance
  /\ UNCHANGED <<dev, req, svc, op, snap, applied, post, rollbackErrors, unacked>>

RecvReading ==
  /\ TakesReading
  /\ phase = "forward" => Head(rep).value = target[op]
  /\ rollbackErrors' = (rollbackErrors
                          \/ (phase = "rollback" /\ Head(rep).value # current[op]))
  /\ Advance
  /\ UNCHANGED <<dev, req, svc, op, snap, applied, post, unacked>>

-----------------------------------------------------------------------------
(* Exceptions.  In the forward loop they lead to the rollback; in the      *)
(* rollback they end it, with the operations left in todo not attempted.   *)

Raise(inDoubt) ==
  /\ IF phase = "rollback"
     THEN phase' = "failed" /\ rollbackErrors' = TRUE /\ UNCHANGED unacked
     ELSE phase' = "abort" /\ unacked' = inDoubt /\ UNCHANGED rollbackErrors
  /\ UNCHANGED <<svc, step, op, todo, snap, applied, post>>

\* Mutant: the wait for an acknowledgement has no deadline.
TransportFails_NoDeadline ==
  /\ Looping /\ step # "ack"
  /\ Raise({})
  /\ UNCHANGED env

\* The deadline passes or the port fails: at any step of an iteration.
TransportFails ==
  /\ Looping
  /\ Raise(IF step = "ack" THEN {op} ELSE {})
  /\ UNCHANGED env

\* The old slot time was 0 and cannot be encoded.
EncodingFails ==
  /\ Looping /\ step = "next"
  /\ \E f \in Restorable : IsNext(f) /\ ~ Encodable(f, Wanted(f))
  /\ Raise({})
  /\ UNCHANGED env

\* A nonzero response answers the write: it was not stored.
RecvRefusal ==
  /\ Looping /\ step = "ack"
  /\ rep # << >> /\ IsResponse(Head(rep), 1)
  /\ \E n \in 1 .. Len(rep) : RestOfChunkDropped(n)
  /\ Raise({})
  /\ UNCHANGED <<dev, req>>

\* run_query takes any response for the answer; a zero one has no data.
RecvResponseToQuery ==
  /\ Looping /\ step = "reading"
  /\ rep # << >> /\ Head(rep).type = "response"
  /\ \E n \in 1 .. Len(rep) : RestOfChunkDropped(n)
  /\ Raise({})
  /\ UNCHANGED <<dev, req>>

ReadbackDiffers ==
  /\ TakesReading
  /\ phase = "forward" /\ Head(rep).value # target[op]
  /\ Raise({})
  /\ UNCHANGED <<dev, req>>

-----------------------------------------------------------------------------
(* The backup after the loop: one query after the other on a connection of  *)
(* its own, all of them again on a new one when it is lost.                *)

Asked == BackupOrder[Len(backup) + 1]

QueryForBackup ==
  /\ phase = "post" /\ step = "next"
  /\ Len(backup) < Len(BackupOrder)
  /\ Len(req) + Len(rep) < MaxPending
  /\ req' = Append(req, Query(Asked))
  /\ step' = "reading"
  /\ UNCHANGED <<dev, rep, svc, phase, op, todo, snap, applied, post,
                 rollbackErrors, unacked>>

AwaitsResult == phase = "post" /\ step = "reading"

\* run_query has come to an end; a failed query is a result too, and the next
\* one is sent.
Result(v) ==
  /\ backup' = Append(backup, v)
  /\ step' = "next"
  /\ UNCHANGED <<dev, req, svc, phase, op, todo, snap, applied, lost,
                 rollbackErrors, unacked>>

BackupReading ==
  /\ AwaitsResult
  /\ rep # << >> /\ Head(rep).type = "reading" /\ Head(rep).field = Asked
  /\ \E n \in 1 .. Len(rep) : RestOfChunkDropped(n)
  /\ Result(Head(rep).value)

\* The deadline passes, or any response is taken for the answer.
BackupMisses ==
  /\ AwaitsResult
  /\ \/ UNCHANGED rep
     \/ /\ rep # << >> /\ Head(rep).type = "response"
        /\ \E n \in 1 .. Len(rep) : RestOfChunkDropped(n)
  /\ Result(NoReading)

\* An answer that comes too late is passed over.
BackupSkips ==
  /\ AwaitsResult
  /\ rep # << >> /\ Head(rep).type = "reading" /\ Head(rep).field # Asked
  /\ rep' = Tail(rep)
  /\ UNCHANGED <<dev, req, svc, phase, step, op, todo, snap, applied, post,
                 rollbackErrors, unacked>>

\* _read_transaction: queries of the connection that was lost may still be
\* served.
BackupReconnects ==
  /\ phase = "post" /\ lost < Retries
  /\ \E n \in 0 .. Len(rep) : RestOfChunkDropped(n)
  /\ backup' = << >> /\ lost' = lost + 1
  /\ step' = "next"
  /\ UNCHANGED <<dev, req, svc, phase, op, todo, snap, applied, rollbackErrors,
                 unacked>>

\* Mutant: the backup is compared for the planned operations only.
Equal_PlannedOnly ==
  /\ Len(backup) = Len(BackupOrder)
  /\ \A i \in 1 .. Len(backup) :
       BackupOrder[i] \in applied => backup[i] = target[BackupOrder[i]]

\* create_snapshot takes no failed query; diff_snapshots finds nothing.
Equal ==
  /\ Len(backup) = Len(BackupOrder)
  /\ \A i \in 1 .. Len(backup) : backup[i] = target[BackupOrder[i]]

PostBackupEqual ==
  /\ phase = "post" /\ step = "next"
  /\ Equal
  /\ phase' = "restored"
  /\ UNCHANGED <<env, svc, step, op, todo, snap, applied, post, rollbackErrors,
                 unacked>>

\* The comparison finds a difference or a failed query, the last connection is
\* lost, or a query raises; what was read goes with the exception.
PostBackupFails ==
  /\ phase = "post"
  /\ ~ Equal
  /\ phase' = "abort"
  /\ backup' = << >> /\ lost' = 0
  /\ UNCHANGED <<env, svc, step, op, todo, snap, applied, rollbackErrors, unacked>>

-----------------------------------------------------------------------------
(* The way into the rollback. *)

\* Opening the port again drops what already arrived.
OpenForRollback ==
  /\ phase = "abort" /\ applied # {}
  /\ \E n \in 0 .. Len(rep) : RestOfChunkDropped(n)
  /\ todo' = applied
  /\ step' = "next" /\ phase' = "rollback"
  /\ UNCHANGED <<dev, req, svc, op, snap, applied, post, rollbackErrors, unacked>>

\* Mutant: the exception of the second open is swallowed.
OpenFails_Unreported ==
  /\ phase = "abort" /\ applied # {}
  /\ phase' = "failed"
  /\ UNCHANGED <<env, svc, step, op, todo, snap, applied, post, rollbackErrors,
                 unacked>>

OpenFails ==
  /\ phase = "abort" /\ applied # {}
  /\ phase' = "failed" /\ rollbackErrors' = TRUE
  /\ UNCHANGED <<env, svc, step, op, todo, snap, applied, post, unacked>>

NothingToRollBack ==
  /\ phase = "abort" /\ applied = {}
  /\ phase' = "failed"
  /\ UNCHANGED <<env, svc, step, op, todo, snap, applied, post, rollbackErrors,
                 unacked>>

-----------------------------------------------------------------------------
HostStep ==
  \/ Refuse \/ Begin
  \/ SendWrite \/ RecvAck \/ SkipFrame
  \/ SendQuery \/ RecvReading
  \/ TransportFails \/ EncodingFails \/ RecvRefusal \/ RecvResponseToQuery
  \/ ReadbackDiffers
  \/ QueryForBackup \/ BackupReading \/ BackupMisses \/ BackupSkips
  \/ BackupReconnects \/ PostBackupEqual \/ PostBackupFails
  \/ OpenForRollback \/ OpenFails \/ NothingToRollBack

Next == HostStep \/ NodeStep \/ LoseMessage

\* Every wait of the host has a deadline, so the host always moves on; the
\* node owes nothing.
Spec == Init /\ [][Next]_vars /\ WF_vars(HostStep)

-----------------------------------------------------------------------------
(* Properties. *)

PendingWrites == {i \in 1 .. Len(req) : req[i].type = "write"}

\* "restored" is reported only when the whole configuration, the fields the
\* plan did not touch included, is the target's, and no write of the
\* transaction can still reach the node and change it afterwards.  Holds
\* whatever a write disturbs: the second backup is what guards it.
RestoredMeansTarget ==
  phase = "restored" => dev = target /\ PendingWrites = {}

\* After a failure whose rollback_errors list is empty the node has its old
\* configuration except, at most, for the one operation whose write was sent
\* and never acknowledged; also when requests and replies of the abandoned
\* operation surface during the rollback or after it.  (For a node whose
\* writes disturb no other field.)
OnlyUnackedMayDiffer ==
  ~ coupled /\ phase = "failed" /\ ~ rollbackErrors
    => \A f \in Field : dev[f] # current[f] => f \in unacked

\* The loop writes the next operation only when the node itself, and not just
\* the answers read so far, has every earlier operation at its target and
\* every later one at its old value; again where a write changes one field.
VerifiedBeforeNext ==
  ~ coupled /\ phase = "forward" /\ step = "next"
    => /\ \A f \in applied : dev[f] = target[f]
       /\ \A f \in todo : dev[f] = current[f]

\* apply_restore returns or raises, whatever the node does with the requests.
Terminates == <>(phase \in Ended)

\* What apply_restore promises its caller, see RestorePromise.
Promise == INSTANCE RestorePromise WITH
  config   <- dev,
  original <- current,
  wanted   <- target,
  outcome  <- IF phase \in Ended THEN phase ELSE "open",
  clean    <- ~ (phase = "failed" /\ rollbackErrors),
  suspect  <- unacked,
  coupled  <- coupled

\* Every behaviour of the transaction is one the promise allows.
KeepsPromise == Promise!Spec
=============================================================================
