------------------------ MODULE MaintenanceFlowsProofs ------------------------
(***************************************************************************)
(* Proofs about MaintenanceFlows, whatever the operator may choose, the    *)
(* node may ignore and the fields it may change with others.               *)
(*                                                                         *)
(* What is left of a flow is always the end of its list of steps, so what  *)
(* a flow has established is a matter of how many steps it has left.       *)
(***************************************************************************)
EXTENDS MaintenanceFlows, SequenceTheorems, TLAPS

Config == [Field -> Value]

-----------------------------------------------------------------------------
(* The steps of the flows. *)

Did(whats) == [do : whats]
Reads      == [do : {"read"}, field : Field, wanted : SUBSET Value]
Matches    == {Match(want) : want \in UNION {[F -> Value] : F \in SUBSET Field}}
Plainly    == [do : {"write"}, field : Field, value : Value, undo : {<< >>}]
Undoing    == Reads \cup Plainly
Writes     == [do : {"write"}, field : Field, value : Value, undo : Seq(Undoing)]

Others == {"confirm", "wait", "backup", "reboot", "health", "same", "uptime", "listen"}
Item   == Did(Others) \cup Did({"reset"}) \cup Reads \cup Matches \cup Writes

\* The steps a flow may have.
Testing  == Reads \cup Writes \cup Did({"listen"})
Setting  == Reads \cup Writes \cup Matches
Simple   == Reads \cup Plainly \cup Matches \cup Did(Others)
Quiet    == Did(Others)
Watching == Did({"listen", "same"})

LEMMA OneItem ==
  ASSUME NEW f \in Field, NEW v \in Value, NEW wanted \in SUBSET Value
  PROVE  /\ Write(f, v) \in Plainly /\ Write(f, v) \in Writes
         /\ Read(f, wanted) \in Reads
         /\ \A how \in Seq(Undoing) : Undoable(f, v, how) \in Writes
         /\ \A F \in SUBSET Field : \A want \in [F -> Value] : Match(want) \in Matches
         /\ \A what \in Others : Do(what) \in Did(Others)
         /\ Do("reset") \in Did({"reset"}) /\ Do("listen") \in Did({"listen"})
<1>1. << >> \in Seq(Undoing)
  OBVIOUS
<1> QED
  BY <1>1 DEF Write, Plainly, Writes, Read, Reads, Undoable, Match, Matches, Do, Did

LEMMA Inclusions ==
  /\ Plainly \subseteq Writes
  /\ Testing \subseteq Item /\ Setting \subseteq Item /\ Simple \subseteq Item
  /\ Quiet \subseteq Simple /\ Watching \subseteq Item /\ Undoing \subseteq Simple /\ Undoing \subseteq Setting
  /\ Undoing \subseteq Testing /\ Did({"listen"}) \subseteq Quiet
<1>1. << >> \in Seq(Undoing)
  OBVIOUS
<1>2. Plainly \subseteq Writes
  BY <1>1 DEF Plainly, Writes
<1>3. Did({"listen"}) \subseteq Did(Others) /\ Did({"listen", "same"}) \subseteq Did(Others)
  BY DEF Did, Others
<1> QED
  BY <1>2, <1>3 DEF Testing, Setting, Simple, Quiet, Watching, Item, Undoing

LEMMA OneTuple == ASSUME NEW S, NEW a \in S
  PROVE  <<a>> \in Seq(S) /\ Len(<<a>>) = 1 /\ <<a>>[1] = a
OBVIOUS

LEMMA TwoTuple == ASSUME NEW S, NEW a \in S, NEW b \in S
  PROVE  <<a, b>> \in Seq(S) /\ Len(<<a, b>>) = 2 /\ <<a, b>>[1] = a /\ <<a, b>>[2] = b
OBVIOUS

LEMMA Verified ==
  ASSUME NEW f \in Field, NEW v \in Value
  PROVE  /\ WriteVerified(f, v) \in Seq(Undoing) /\ Len(WriteVerified(f, v)) = 2
         /\ WriteVerified(f, v)[1] = Write(f, v) /\ WriteVerified(f, v)[2] = Read(f, Value)
         /\ WriteCompared(f, v) \in Seq(Undoing) /\ Len(WriteCompared(f, v)) = 2
         /\ WriteCompared(f, v)[1] = Write(f, v) /\ WriteCompared(f, v)[2] = Read(f, {v})
<1>1. Write(f, v) \in Undoing /\ Read(f, Value) \in Undoing /\ Read(f, {v}) \in Undoing
  BY OneItem DEF Undoing
<1> QED
  BY <1>1, TwoTuple DEF WriteVerified, WriteCompared

\* z joins x, of length m, and y, of length n.
Joint(S, x, y, z, m, n) ==
  /\ z \in Seq(S) /\ Len(z) = m + n
  /\ \A i \in 1 .. m : z[i] = x[i]
  /\ \A i \in 1 .. n : z[m + i] = y[i]

LEMMA Joined ==
  ASSUME NEW S, NEW x \in Seq(S), NEW y \in Seq(S), NEW m \in Nat, NEW n \in Nat,
         Len(x) = m, Len(y) = n
  PROVE  Joint(S, x, y, x \o y, m, n)
BY DEF Joint

-----------------------------------------------------------------------------
(* What each flow consists of. *)

LEMMA ProfileSteps ==
  ASSUME NEW b \in Config
  PROVE  /\ Profile(b) \in Seq(Setting) /\ Len(Profile(b)) = 6
         /\ Profile(b)[1] = Undoable("general", "new", WriteVerified("general", b["general"]))
         /\ Profile(b)[2] = Read("general", Value)
         /\ Profile(b)[3] = Undoable("uplink", "new", WriteVerified("uplink", b["uplink"]))
         /\ Profile(b)[4] = Read("uplink", Value)
         /\ Profile(b)[5] = Match([f \in {"general", "uplink"} |-> "new"])
         /\ Profile(b)[6] = Match([f \in PreservedFields |-> b[f]])
<1> DEFINE g == ProfileField("general", b)
           u == ProfileField("uplink", b)
           m == <<Match([f \in {"general", "uplink"} |-> "new"]),
                  Match([f \in PreservedFields |-> b[f]])>>
<1>1. ASSUME NEW f \in {"general", "uplink"}
      PROVE  /\ ProfileField(f, b) \in Seq(Setting) /\ Len(ProfileField(f, b)) = 2
             /\ ProfileField(f, b)[1] = Undoable(f, "new", WriteVerified(f, b[f]))
             /\ ProfileField(f, b)[2] = Read(f, Value)
  <2>1. f \in Field /\ b[f] \in Value /\ "new" \in Value
    BY DEF Field, Config, Value
  <2>2. Undoable(f, "new", WriteVerified(f, b[f])) \in Setting /\ Read(f, Value) \in Setting
    BY <2>1, OneItem, Verified DEF Setting
  <2> QED
    BY <2>2, TwoTuple DEF ProfileField
<1>2. m \in Seq(Setting) /\ Len(m) = 2
  <2>1. [f \in {"general", "uplink"} |-> "new"] \in [{"general", "uplink"} -> Value]
    BY DEF Value
  <2>2. [f \in PreservedFields |-> b[f]] \in [PreservedFields -> Value]
    BY DEF PreservedFields, Config, Field
  <2>3. {"general", "uplink"} \in SUBSET Field /\ PreservedFields \in SUBSET Field
    BY DEF Field, PreservedFields
  <2>4. Match([f \in {"general", "uplink"} |-> "new"]) \in Matches
        /\ Match([f \in PreservedFields |-> b[f]]) \in Matches
    BY <2>1, <2>2, <2>3, OneItem DEF Field, Value
  <2> QED
    BY <2>4, TwoTuple DEF Setting
<1>3. /\ g \in Seq(Setting) /\ Len(g) = 2 /\ u \in Seq(Setting) /\ Len(u) = 2
      /\ g[1] = Undoable("general", "new", WriteVerified("general", b["general"]))
      /\ g[2] = Read("general", Value)
      /\ u[1] = Undoable("uplink", "new", WriteVerified("uplink", b["uplink"]))
      /\ u[2] = Read("uplink", Value)
  BY <1>1
<1>4. /\ m[1] = Match([f \in {"general", "uplink"} |-> "new"])
      /\ m[2] = Match([f \in PreservedFields |-> b[f]])
  OBVIOUS
<1>5. Profile(b) = (g \o u) \o m
  BY DEF Profile
<1> HIDE DEF g, u, m
<1> DEFINE gu == g \o u
<1>6. Joint(Setting, g, u, gu, 2, 2)
  BY <1>3, Joined
<1> HIDE DEF gu
<1>7. /\ gu \in Seq(Setting) /\ Len(gu) = 4
      /\ gu[1] = g[1] /\ gu[2] = g[2] /\ gu[2 + 1] = u[1] /\ gu[2 + 2] = u[2]
  BY <1>6 DEF Joint
<1> DEFINE all == gu \o m
<1>8. Joint(Setting, gu, m, all, 4, 2)
  BY <1>2, <1>7, Joined
<1>9. Profile(b) = all
  BY <1>5 DEF gu
<1> HIDE DEF all
<1>10. /\ all \in Seq(Setting) /\ Len(all) = 6
       /\ all[1] = gu[1] /\ all[2] = gu[2] /\ all[3] = gu[3] /\ all[4] = gu[4]
       /\ all[4 + 1] = m[1] /\ all[4 + 2] = m[2]
  BY <1>8 DEF Joint
<1> QED
  BY <1>3, <1>4, <1>7, <1>9, <1>10

LEMMA NetworkItem == Network \in Simple
<1>1. [f \in {"network"} |-> "new"] \in [{"network"} -> Value]
  BY DEF Value
<1> QED
  BY <1>1, OneItem DEF Network, Field, Value, Simple

\* A series of fields that are written with their new value and read back.
LEMMA Renewed ==
  ASSUME NEW s \in Seq(Simple), NEW f \in Field
  PROVE  /\ s \o WriteVerified(f, "new") \in Seq(Simple)
         /\ Len(s \o WriteVerified(f, "new")) = Len(s) + 2
         /\ \A i \in 1 .. Len(s) : (s \o WriteVerified(f, "new"))[i] = s[i]
<1>1. WriteVerified(f, "new") \in Seq(Simple) /\ Len(WriteVerified(f, "new")) = 2
  BY Verified, Inclusions, SeqMonotonic DEF Value
<1> DEFINE z == s \o WriteVerified(f, "new")
<1>2. Len(s) \in Nat
  OBVIOUS
<1>3. Joint(Simple, s, WriteVerified(f, "new"), z, Len(s), 2)
  BY <1>1, <1>2, Joined
<1> HIDE DEF z
<1>4. z \in Seq(Simple) /\ Len(z) = Len(s) + 2 /\ \A i \in 1 .. Len(s) : z[i] = s[i]
  BY <1>3 DEF Joint
<1> QED
  BY <1>4 DEF z

LEMMA CredentialsSteps ==
  /\ Credentials \in Seq(Simple) /\ Len(Credentials) = 5 /\ Credentials[5] = Network
<1> DEFINE j == WriteVerified("join", "new")
           n == WriteVerified("network", "new")
<1>1. j \in Seq(Simple) /\ Len(j) = 2
  BY Verified, Inclusions, SeqMonotonic DEF Value, Field
<1>2. j \o n \in Seq(Simple) /\ Len(j \o n) = 4
  <2>1. "network" \in Field
    BY DEF Field
  <2> QED
    BY <1>1, <2>1, Renewed
<1>3. <<Network>> \in Seq(Simple) /\ Len(<<Network>>) = 1 /\ <<Network>>[1] = Network
  BY NetworkItem, OneTuple
<1>4. Credentials = (j \o n) \o <<Network>>
  BY DEF Credentials
<1> HIDE DEF j, n
<1> DEFINE jn == j \o n
           all == jn \o <<Network>>
<1> HIDE DEF jn
<1>5. Joint(Simple, jn, <<Network>>, all, 4, 1)
  BY <1>2, <1>3, Joined DEF jn
<1>6. Credentials = all
  BY <1>4 DEF jn
<1> HIDE DEF all
<1>7. all \in Seq(Simple) /\ Len(all) = 5 /\ all[4 + 1] = <<Network>>[1]
  BY <1>5 DEF Joint
<1> QED
  BY <1>3, <1>6, <1>7

LEMMA PostResetSteps ==
  /\ PostReset \in Seq(Simple) /\ Len(PostReset) = 18
  /\ PostReset[1] = Do("confirm") /\ PostReset[18] = Network
<1> DEFINE c  == <<Do("confirm")>>
           W(f) == WriteVerified(f, "new")
           c1 == c \o W("general")
           c2 == c1 \o W("uplink")
           c3 == c2 \o W("downlink")
           c4 == c3 \o W("sampling")
           c5 == c4 \o W("slot")
           c6 == c5 \o W("channels")
           c7 == c6 \o W("join")
           c8 == c7 \o W("network")
<1>1. c \in Seq(Simple) /\ Len(c) = 1 /\ c[1] = Do("confirm")
  <2>1. Do("confirm") \in Simple
    BY OneItem DEF Others, Simple, Field, Value
  <2> QED
    BY <2>1, OneTuple
<1>2. PostReset = c8 \o <<Network>>
  BY DEF PostReset
<1>3. <<Network>> \in Seq(Simple) /\ Len(<<Network>>) = 1 /\ <<Network>>[1] = Network
  BY NetworkItem, OneTuple
<1> DEFINE Begun(s, n) == s \in Seq(Simple) /\ Len(s) = n /\ s[1] = Do("confirm")
<1>4. ASSUME NEW s, NEW n \in Nat \ {0}, Begun(s, n), NEW f \in Field
      PROVE  Begun(s \o W(f), n + 2)
  <2>1. /\ s \o W(f) \in Seq(Simple) /\ Len(s \o W(f)) = Len(s) + 2
        /\ \A i \in 1 .. Len(s) : (s \o W(f))[i] = s[i]
    BY <1>4, Renewed
  <2> QED
    BY <1>4, <2>1
<1>0. {"general", "uplink", "downlink", "sampling", "slot", "channels", "join", "network"}
        \subseteq Field
  BY DEF Field
<1> HIDE DEF c, W, Begun
<1>5. Begun(c1, 3)
  <2>1. Begun(c, 1)
    BY <1>1 DEF Begun
  <2>2. Begun(c1, 1 + 2)
    BY <1>0, <1>4, <2>1
  <2> QED
    BY <2>2
<1>6. Begun(c2, 5)
  <2>1. Begun(c2, 3 + 2)
    BY <1>0, <1>4, <1>5
  <2> QED
    BY <2>1
<1>7. Begun(c3, 7)
  <2>1. Begun(c3, 5 + 2)
    BY <1>0, <1>4, <1>6
  <2> QED
    BY <2>1
<1>8. Begun(c4, 9)
  <2>1. Begun(c4, 7 + 2)
    BY <1>0, <1>4, <1>7
  <2> QED
    BY <2>1
<1>9. Begun(c5, 11)
  <2>1. Begun(c5, 9 + 2)
    BY <1>0, <1>4, <1>8
  <2> QED
    BY <2>1
<1>10. Begun(c6, 13)
  <2>1. Begun(c6, 11 + 2)
    BY <1>0, <1>4, <1>9
  <2> QED
    BY <2>1
<1>11. Begun(c7, 15)
  <2>1. Begun(c7, 13 + 2)
    BY <1>0, <1>4, <1>10
  <2> QED
    BY <2>1
<1>12. Begun(c8, 17)
  <2>1. Begun(c8, 15 + 2)
    BY <1>0, <1>4, <1>11
  <2> QED
    BY <2>1
<1>14. c8 \in Seq(Simple) /\ Len(c8) = 17 /\ c8[1] = Do("confirm")
  BY <1>12 DEF Begun
<1> HIDE DEF c8
<1> DEFINE all == c8 \o <<Network>>
<1>13. Joint(Simple, c8, <<Network>>, all, 17, 1)
  BY <1>3, <1>14, Joined
<1>15. PostReset = all
  BY <1>2
<1> HIDE DEF all
<1>16. /\ all \in Seq(Simple) /\ Len(all) = 18
       /\ all[1] = c8[1] /\ all[17 + 1] = <<Network>>[1]
  BY <1>13 DEF Joint
<1> QED
  BY <1>3, <1>14, <1>15, <1>16

LEMMA FactoryResetSteps ==
  /\ FactoryReset \in Seq(Item) /\ Len(FactoryReset) = 2
  /\ FactoryReset[1] = Do("reset") /\ FactoryReset[2] = Do("wait")
<1>1. Do("reset") \in Item /\ Do("wait") \in Item
  BY DEF Item, Do, Did, Others
<1> QED
  BY <1>1, TwoTuple DEF FactoryReset

LEMMA RebootSteps ==
  /\ Reboot \in Seq(Quiet) /\ Reboot \in Seq(Simple) /\ Len(Reboot) = 5
  /\ Reboot[1] = Do("backup") /\ Reboot[2] = Do("reboot") /\ Reboot[3] = Do("health")
  /\ Reboot[4] = Do("same") /\ Reboot[5] = Do("uptime")
<1>1. /\ Do("backup") \in Quiet /\ Do("reboot") \in Quiet /\ Do("health") \in Quiet
      /\ Do("same") \in Quiet /\ Do("uptime") \in Quiet
  BY DEF Quiet, Do, Did, Others
<1>2. Reboot \in Seq(Quiet)
  BY <1>1 DEF Reboot
<1>3. Reboot \in Seq(Simple)
  BY <1>2, Inclusions, SeqMonotonic
<1> QED
  BY <1>2, <1>3 DEF Reboot

LEMMA TargetMatches == ASSUME NEW b \in Config PROVE Match(Target(b)) \in Simple
<1>1. Target(b) \in [Saved -> Value] /\ Saved \in SUBSET Field
  BY DEF Target, Config, Saved, Value
<1>2. Match(Target(b)) \in Matches
  BY <1>1, OneItem DEF Field, Value
<1> QED
  BY <1>2 DEF Simple

\* The reset is the first step of a recovery, the confirmation the first but
\* two; it ends with the health of the node, two comparisons and its uptime.
LEMMA RecoverSteps ==
  ASSUME NEW b \in Config
  PROVE  /\ Recover(b) \in Seq(Item) /\ Len(Recover(b)) = 26
         /\ Recover(b)[1] = Do("reset") /\ Recover(b)[2] = Do("wait")
         /\ Recover(b)[3] = Do("confirm")
         /\ \A i \in 2 .. 26 : Recover(b)[i] \in Simple
         /\ Recover(b)[23] = Do("health") /\ Recover(b)[26] = Match(Target(b))
<1> DEFINE p == FactoryReset \o PostReset
           q == p \o Reboot
           m == <<Match(Target(b))>>
           r == q \o m
<1>1. /\ FactoryReset \in Seq(Item) /\ PostReset \in Seq(Item) /\ Reboot \in Seq(Item)
      /\ m \in Seq(Item) /\ Len(m) = 1 /\ m[1] = Match(Target(b))
  <2>1. PostReset \in Seq(Item) /\ Reboot \in Seq(Item)
    BY PostResetSteps, RebootSteps, Inclusions, SeqMonotonic
  <2>2. Match(Target(b)) \in Item
    BY TargetMatches, Inclusions
  <2> QED
    BY <2>1, <2>2, FactoryResetSteps, OneTuple
<1>2. Joint(Item, FactoryReset, PostReset, p, 2, 18)
  BY <1>1, FactoryResetSteps, PostResetSteps, Joined
<1> HIDE DEF p
<1>3. /\ p \in Seq(Item) /\ Len(p) = 20 /\ p[1] = Do("reset") /\ p[2] = Do("wait")
      /\ p[2 + 1] = Do("confirm")
  BY <1>2, FactoryResetSteps, PostResetSteps DEF Joint
<1>4. \A i \in 3 .. 20 : p[i] \in Simple
  <2>1. \A i \in 1 .. 18 : PostReset[i] \in Simple
    BY PostResetSteps, ElementOfSeq
  <2>2. \A i \in 1 .. 18 : p[2 + i] \in Simple
    BY <1>2, <2>1 DEF Joint
  <2>3. \A i \in 3 .. 20 : i - 2 \in 1 .. 18 /\ 2 + (i - 2) = i
    OBVIOUS
  <2> QED
    BY <2>2, <2>3
<1>5. Joint(Item, p, Reboot, q, 20, 5)
  BY <1>1, <1>3, RebootSteps, Joined
<1> HIDE DEF q
<1>6. /\ q \in Seq(Item) /\ Len(q) = 25
      /\ \A i \in 1 .. 20 : q[i] = p[i]
      /\ \A i \in 1 .. 5 : q[20 + i] = Reboot[i]
  BY <1>5 DEF Joint
<1>7. \A i \in 21 .. 25 : q[i] \in Simple
  <2>1. \A i \in 1 .. 5 : q[20 + i] \in Simple
    BY <1>6, RebootSteps, ElementOfSeq
  <2>2. \A i \in 21 .. 25 : i - 20 \in 1 .. 5 /\ 20 + (i - 20) = i
    OBVIOUS
  <2> QED
    BY <2>1, <2>2
<1>8. Joint(Item, q, m, r, 25, 1)
  BY <1>1, <1>6, Joined
<1>9. Recover(b) = r
  BY DEF Recover, p, q
<1> HIDE DEF r, m
<1>10. /\ r \in Seq(Item) /\ Len(r) = 26
       /\ \A i \in 1 .. 25 : r[i] = q[i]
       /\ r[25 + 1] = m[1]
  BY <1>8 DEF Joint
<1>11. /\ r[1] = Do("reset") /\ r[2] = Do("wait") /\ r[3] = Do("confirm")
       /\ r[26] = Match(Target(b))
  BY <1>1, <1>3, <1>6, <1>10
<1>12. r[23] = Do("health")
  <2>1. q[20 + 3] = Do("health")
    BY <1>6, RebootSteps
  <2> QED
    BY <1>10, <2>1
<1>13. \A i \in 2 .. 26 : r[i] \in Simple
  <2>1. Do("wait") \in Simple
    BY DEF Simple, Did, Do, Others
  <2>2. ASSUME NEW i \in 2 .. 26 PROVE r[i] \in Simple
    <3>1. i = 2 \/ i \in 3 .. 20 \/ i \in 21 .. 25 \/ i = 26
      OBVIOUS
    <3>2. CASE i = 2
      BY <1>11, <2>1, <3>2
    <3>3. CASE i \in 3 .. 20
      <4>1. i \in 1 .. 25 /\ i \in 1 .. 20
        BY <3>3
      <4>2. r[i] = q[i] /\ q[i] = p[i]
        BY <1>6, <1>10, <4>1
      <4> QED
        BY <1>4, <3>3, <4>2
    <3>4. CASE i \in 21 .. 25
      <4>1. i \in 1 .. 25
        BY <3>4
      <4>2. r[i] = q[i]
        BY <1>10, <4>1
      <4> QED
        BY <1>7, <3>4, <4>2
    <3>5. CASE i = 26
      BY <1>11, <3>5, TargetMatches
    <3> QED
      BY <3>1, <3>2, <3>3, <3>4, <3>5
  <2> QED
    BY <2>2
<1> QED
  BY <1>9, <1>10, <1>11, <1>12, <1>13

\* A validation writes the present value, then the new one, and looks at each.
Tests(f, b) ==
  <<Write(f, b[f]), Read(f, {b[f]}), Undoable(f, "new", WriteCompared(f, b[f])),
    Read(f, {"new"})>>

LEMMA ValidateSteps ==
  ASSUME NEW b \in Config, NEW f \in Field
  PROVE  /\ Validate(f, b) \in Seq(Testing) /\ Len(Validate(f, b)) = 4
         /\ \A i \in 1 .. 4 : Validate(f, b)[i] = Tests(f, b)[i]
         /\ Validate(f, b) \o <<Do("listen")>> \in Seq(Testing)
         /\ Len(Validate(f, b) \o <<Do("listen")>>) = 5
         /\ \A i \in 1 .. 4 : (Validate(f, b) \o <<Do("listen")>>)[i] = Tests(f, b)[i]
         /\ (Validate(f, b) \o <<Do("listen")>>)[5] = Do("listen")
<1> DEFINE w == WriteCompared(f, b[f])
           x == <<Undoable(f, "new", WriteCompared(f, b[f])), Read(f, {"new"})>>
           v == w \o x
           l == <<Do("listen")>>
           vl == v \o l
<1>1. b[f] \in Value /\ "new" \in Value
  BY DEF Config, Value
<1>2. /\ w \in Seq(Testing) /\ Len(w) = 2
      /\ w[1] = Write(f, b[f]) /\ w[2] = Read(f, {b[f]})
  BY <1>1, Verified, Inclusions, SeqMonotonic
<1>3. /\ x \in Seq(Testing) /\ Len(x) = 2
      /\ x[1] = Undoable(f, "new", WriteCompared(f, b[f])) /\ x[2] = Read(f, {"new"})
  <2>1. Undoable(f, "new", WriteCompared(f, b[f])) \in Testing /\ Read(f, {"new"}) \in Testing
    BY <1>1, OneItem, Verified DEF Testing
  <2> QED
    BY <2>1, TwoTuple
<1>4. l \in Seq(Testing) /\ Len(l) = 1 /\ l[1] = Do("listen")
  <2>1. Do("listen") \in Testing
    BY DEF Testing, Do, Did
  <2> QED
    BY <2>1, OneTuple
<1> HIDE DEF w, x, l
<1>5. Joint(Testing, w, x, v, 2, 2)
  BY <1>2, <1>3, Joined
<1>6. Validate(f, b) = v
  BY DEF Validate, w, x
<1> HIDE DEF v
<1>7. /\ v \in Seq(Testing) /\ Len(v) = 4
      /\ v[1] = w[1] /\ v[2] = w[2] /\ v[2 + 1] = x[1] /\ v[2 + 2] = x[2]
  BY <1>5 DEF Joint
<1>8. \A i \in 1 .. 4 : v[i] = Tests(f, b)[i]
  <2>1. \A i \in 1 .. 4 : i \in {1, 2, 3, 4}
    OBVIOUS
  <2> QED
    BY <1>2, <1>3, <1>7, <2>1 DEF Tests
<1>9. Joint(Testing, v, l, vl, 4, 1)
  BY <1>4, <1>7, Joined
<1>10. Validate(f, b) \o <<Do("listen")>> = vl
  BY <1>6 DEF l
<1> HIDE DEF vl
<1>11. vl \in Seq(Testing) /\ Len(vl) = 5 /\ (\A i \in 1 .. 4 : vl[i] = v[i]) /\ vl[4 + 1] = l[1]
  BY <1>9 DEF Joint
<1> QED
  BY <1>4, <1>6, <1>7, <1>8, <1>10, <1>11

LEMMA BurstSteps ==
  /\ Burst \in Seq(Testing) /\ Len(Burst) = 2
  /\ Burst[1] = Undoable("burst", "new", <<Write("burst", "old")>>)
<1>1. Write("burst", "old") \in Undoing
  BY OneItem DEF Undoing, Field, Value
<1>2. <<Write("burst", "old")>> \in Seq(Undoing)
  BY <1>1
<1>3. Undoable("burst", "new", <<Write("burst", "old")>>) \in Testing
  BY <1>2, OneItem DEF Testing, Field, Value
<1>4. Do("listen") \in Testing
  BY DEF Testing, Do, Did
<1> QED
  BY <1>3, <1>4, TwoTuple DEF Burst

LEMMA AfterSteps ==
  ASSUME NEW fl
  PROVE  /\ After(fl) \in Seq(Watching) /\ Len(After(fl)) >= 1
         /\ After(fl)[Len(After(fl))] = Do("same")
<1>1. Do("listen") \in Watching /\ Do("same") \in Watching
  BY DEF Watching, Do, Did
<1> QED
  BY <1>1, OneTuple, TwoTuple DEF After

LEMMA FlowSteps ==
  ASSUME NEW b \in Config, NEW fl \in Flows
  PROVE  /\ Forward(fl, b) \in Seq(Item)
         /\ fl \in Validations => Forward(fl, b) \in Seq(Testing)
         /\ fl = "profile" => Forward(fl, b) \in Seq(Setting)
         /\ fl \in {"credentials", "post-reset", "reboot"} => Forward(fl, b) \in Seq(Simple)
         /\ fl = "reboot" => Forward(fl, b) \in Seq(Quiet)
         /\ fl \in {"factory-reset", "recover"} =>
              /\ Forward(fl, b)[1] = Do("reset")
              /\ \A i \in 2 .. Len(Forward(fl, b)) : Forward(fl, b)[i] \in Simple
<1>1. CASE fl = "profile"
  <2>1. Forward(fl, b) = Profile(b)
    BY <1>1 DEF Forward
  <2> QED
    BY <1>1, <2>1, ProfileSteps, Inclusions, SeqMonotonic DEF Validations
<1>2. CASE fl \in {"credentials", "post-reset", "reboot"}
  <2>1. \/ fl = "credentials" /\ Forward(fl, b) = Credentials
        \/ fl = "post-reset" /\ Forward(fl, b) = PostReset
        \/ fl = "reboot" /\ Forward(fl, b) = Reboot
    BY <1>2 DEF Forward
  <2>2. Forward(fl, b) \in Seq(Simple) /\ (fl = "reboot" => Forward(fl, b) \in Seq(Quiet))
    BY <2>1, CredentialsSteps, PostResetSteps, RebootSteps
  <2> QED
    BY <1>2, <2>2, Inclusions, SeqMonotonic DEF Validations
<1>3. CASE fl = "factory-reset"
  <2>1. Forward(fl, b) = FactoryReset
    BY <1>3 DEF Forward
  <2>2. Do("wait") \in Simple
    BY DEF Simple, Do, Did, Others
  <2>3. \A i \in 2 .. 2 : i = 2
    OBVIOUS
  <2> QED
    BY <1>3, <2>1, <2>2, <2>3, FactoryResetSteps DEF Validations
<1>4. CASE fl = "recover"
  <2>1. Forward(fl, b) = Recover(b)
    BY <1>4 DEF Forward
  <2> QED
    BY <1>4, <2>1, RecoverSteps DEF Validations
<1>5. CASE fl \in Validations
  <2>1. \/ Forward(fl, b) = Validate("channels", b) \o <<Do("listen")>>
        \/ Forward(fl, b) = Validate("slot", b)
        \/ Forward(fl, b) = Burst
    BY <1>5 DEF Forward, Validations
  <2>2. Forward(fl, b) \in Seq(Testing)
    BY <2>1, ValidateSteps, BurstSteps DEF Field
  <2> QED
    BY <1>5, <2>2, Inclusions, SeqMonotonic DEF Validations
<1> QED
  BY <1>1, <1>2, <1>3, <1>4, <1>5 DEF Flows

-----------------------------------------------------------------------------
(* What is left of a list of steps. *)

Rest(s, F) == Len(s) <= Len(F) /\ \A i \in 1 .. Len(s) : s[i] = F[Len(F) - Len(s) + i]

LEMMA RestAll == ASSUME NEW S, NEW F \in Seq(S) PROVE Rest(F, F)
BY DEF Rest

LEMMA RestTail ==
  ASSUME NEW S, NEW F \in Seq(S), NEW T, NEW s \in Seq(T), s # << >>, Rest(s, F)
  PROVE  /\ Tail(s) \in Seq(T) /\ Len(s) \in 1 .. Len(F) /\ Len(Tail(s)) = Len(s) - 1
         /\ Head(s) = F[Len(F) - Len(s) + 1] /\ Len(F) - Len(s) + 1 \in 1 .. Len(F)
         /\ Rest(Tail(s), F)
<1>1. /\ Tail(s) \in Seq(T) /\ Len(Tail(s)) = Len(s) - 1 /\ Len(s) \in Nat \ {0}
      /\ \A i \in 1 .. Len(Tail(s)) : Tail(s)[i] = s[i + 1]
  BY HeadTailProperties
<1>2. Len(F) \in Nat /\ Len(s) <= Len(F)
  BY DEF Rest
<1>3. Head(s) = s[1]
  OBVIOUS
<1>4. Head(s) = F[Len(F) - Len(s) + 1]
  BY <1>1, <1>3 DEF Rest
<1> DEFINE n == Len(s)
           m == Len(F)
           t == Tail(s)
<1>5. /\ n \in Nat \ {0} /\ m \in Nat /\ n <= m /\ Len(t) = n - 1
      /\ \A i \in 1 .. n : s[i] = F[m - n + i]
      /\ \A i \in 1 .. n - 1 : t[i] = s[i + 1]
  BY <1>1, <1>2 DEF Rest
<1> HIDE DEF n, m, t
<1>6. ASSUME NEW i \in 1 .. n - 1 PROVE t[i] = F[m - (n - 1) + i]
  <2>1. i + 1 \in 1 .. n /\ m - n + (i + 1) = m - (n - 1) + i
    BY <1>5
  <2> QED
    BY <1>5, <2>1
<1>7. n - 1 <= m
  BY <1>5
<1>8. Rest(t, F)
  BY <1>5, <1>6, <1>7 DEF Rest, m
<1> QED
  BY <1>1, <1>2, <1>4, <1>8 DEF t

-----------------------------------------------------------------------------
(* Where a flow is. *)

Typed ==
  /\ dev \in Config /\ start \in Config /\ base \in Config
  /\ sameId \in BOOLEAN /\ restarted \in BOOLEAN /\ raised \in BOOLEAN
  /\ undoFailed \in BOOLEAN /\ lied \in BOOLEAN
  /\ flow \in Flows \cup {"none"}
  /\ phase \in {"idle", "forward", "undo", "after", "ended"}
  /\ todo \in Seq(Item) /\ undo \in Seq(Undoing)
  /\ outcome \in {"none", "refused", "nothing to do", "rejected", "done", "failed",
                  "restore failed"}

\* The clause of a flow that notes nothing is empty, and only a validation
\* comes to its clause without an exception.
Placed ==
  /\ outcome # "none" <=> phase = "ended"
  /\ phase = "idle" =>
       dev = start /\ base = start /\ sameId /\ undo = << >> /\ todo = << >> /\ flow = "none"
  /\ phase # "idle" => flow \in Flows
  /\ phase \in {"idle", "forward", "after"} => ~ raised /\ ~ undoFailed
  /\ phase = "forward" => Rest(todo, Forward(flow, start))
  /\ phase = "undo" => todo = << >> /\ (flow \notin Validations => raised)
  /\ phase = "after" => flow \in Validations /\ undo = << >> /\ Rest(todo, After(flow))
  /\ flow \in Validations \cup {"profile"} => base = start
  /\ flow \notin Validations \cup {"profile"} => undo = << >>

Located == Typed /\ Placed

\* What a step may do to the node, whether it succeeds or raises.
Acts(s) ==
  /\ dev' \in Config /\ base' \in Config
  /\ sameId' \in BOOLEAN /\ restarted' \in BOOLEAN /\ lied' \in BOOLEAN
  /\ s.do = "write" =>
       /\ dev'[s.field] \in {s.value, dev[s.field]}
       /\ \A g \in Field : g # s.field /\ g \notin Disturbs[s.field] => dev'[g] = dev[g]
  /\ s.do \notin {"write", "reset"} => dev' = dev
  /\ s.do # "reset" => sameId' = sameId
  /\ s.do # "backup" => base' = base
  /\ lied => lied'

\* What is true when a step has succeeded.
Succeeded(s) ==
  /\ s.do = "write" /\ ~ lied' => dev'[s.field] = s.value
  /\ s.do = "read" => dev[s.field] \in s.wanted
  /\ s.do = "match" => \A f \in DOMAIN s.want : dev[f] = s.want[f]
  /\ s.do \in {"confirm", "health"} => sameId
  /\ s.do = "same" => \A f \in Saved : dev[f] = base[f]

\* What a step adds to the clause.
Noted(s) == IF s.do = "write" THEN s.undo ELSE << >>

(* The kinds of steps, with what they have in common. *)

NotBegun ==
  /\ phase = "idle" /\ phase' = "ended" /\ outcome' \in {"refused", "nothing to do"}
  /\ flow' \in Flows
  /\ UNCHANGED <<node, todo, undo, base, raised, undoFailed, start, lied>>

Passes(s) ==
  /\ phase = "forward" /\ todo # << >> /\ s = Head(todo)
  /\ todo' = Tail(todo) /\ undo' = Noted(s) \o undo
  /\ Acts(s) /\ Succeeded(s)
  /\ UNCHANGED <<flow, phase, result, start>>

Fails(s) ==
  /\ phase = "forward" /\ todo # << >> /\ s = Head(todo)
  /\ \/ undo' = Noted(s) \o undo
     \/ flow = "validate-burst" /\ undo' = undo
  /\ raised' = TRUE /\ phase' = "undo" /\ todo' = << >>
  /\ Acts(s)
  /\ UNCHANGED <<flow, undoFailed, outcome, start>>

Rejected ==
  /\ phase = "forward" /\ flow = "validate-burst"
  /\ phase' = "ended" /\ outcome' \in {"rejected", "failed"} /\ todo' = << >>
  /\ UNCHANGED <<node, flow, undo, base, raised, undoFailed, start, lied>>

Undoes(s) ==
  /\ phase = "undo" /\ undo # << >> /\ s = Head(undo)
  /\ undo' = Tail(undo)
  /\ Acts(s) /\ Succeeded(s)
  /\ UNCHANGED <<flow, phase, todo, result, start>>

UndoFails(s) ==
  /\ phase = "undo" /\ undo # << >> /\ s = Head(undo)
  /\ undo' = << >> /\ undoFailed' = TRUE
  /\ Acts(s)
  /\ UNCHANGED <<flow, phase, todo, raised, outcome, start>>

AfterPasses(s) ==
  /\ phase = "after" /\ todo # << >> /\ s = Head(todo)
  /\ todo' = Tail(todo)
  /\ Succeeded(s)
  /\ UNCHANGED <<node, flow, phase, undo, base, result, start, lied>>

AfterFails ==
  /\ phase = "after" /\ phase' = "ended" /\ outcome' = "failed"
  /\ UNCHANGED <<node, flow, todo, undo, base, raised, undoFailed, start, lied>>

Kinds ==
  \/ NotBegun \/ Begin \/ ForwardEnds \/ UndoEnds \/ AfterEnds \/ BurstEnds
  \/ (\E s : Passes(s)) \/ (\E s : Fails(s)) \/ Rejected
  \/ (\E s : Undoes(s)) \/ (\E s : UndoFails(s))
  \/ (\E s : AfterPasses(s)) \/ AfterFails

\* What is stored for a write.
LEMMA StoredFacts ==
  ASSUME dev \in Config, NEW s \in Writes, NEW d \in Stored(s) \cup {dev}
  PROVE  /\ d \in Config /\ d[s.field] \in {s.value, dev[s.field]}
         /\ \A g \in Field : g # s.field /\ g \notin Disturbs[s.field] => d[g] = dev[g]
         /\ d \in Stored(s) => d[s.field] = s.value
<1>1. s.field \in Field /\ s.value \in Value /\ "odd" \in Value
  BY DEF Writes, Value
<1>2. CASE d = dev /\ d \notin Stored(s)
  BY <1>1, <1>2 DEF Config
<1>3. CASE d \in Stored(s)
  <2>1. PICK hit \in SUBSET (Disturbs[s.field] \ {s.field}) :
          d = [f \in Field |-> IF f = s.field THEN s.value ELSE IF f \in hit THEN "odd" ELSE dev[f]]
    BY <1>3 DEF Stored
  <2> QED
    BY <1>1, <2>1 DEF Config
<1> QED
  BY <1>2, <1>3

\* The step at hand, by the phase.
LEMMA AtHand ==
  ASSUME Located, phase \in {"forward", "undo", "after"}, Current # << >>
  PROVE  /\ Now \in Item
         /\ phase \in {"forward", "after"} => Current = todo /\ Now = Head(todo) /\ todo # << >>
         /\ phase = "undo" => Current = undo /\ Now = Head(undo) /\ undo # << >>
                              /\ Now \in Undoing
         /\ phase = "after" => Now.do \in {"listen", "same"}
<1>1. Undoing \subseteq Item
  BY Inclusions
<1>2. CASE phase = "undo"
  BY <1>1, <1>2, HeadTailProperties DEF Located, Typed, Current, Now
<1>3. CASE phase = "forward"
  BY <1>3, HeadTailProperties DEF Located, Typed, Current, Now
<1>4. CASE phase = "after"
  <2>1. todo # << >> /\ Current = todo /\ Now = Head(todo) /\ Now \in Item
    BY <1>4, HeadTailProperties DEF Located, Typed, Current, Now
  <2>2. Head(todo) = After(flow)[Len(After(flow)) - Len(todo) + 1]
        /\ Len(After(flow)) - Len(todo) + 1 \in 1 .. Len(After(flow))
    BY <1>4, <2>1, AfterSteps, RestTail DEF Located, Typed, Placed
  <2>3. Head(todo) \in Watching
    BY <2>2, AfterSteps, ElementOfSeq
  <2> QED
    BY <1>4, <2>1, <2>3 DEF Watching, Did
<1> QED
  BY <1>2, <1>3, <1>4

\* Of the steps only a write has a field to be written; none is of two kinds.
LEMMA ItemKinds ==
  ASSUME NEW s \in Item
  PROVE  /\ s.do = "write" => s \in Writes
         /\ s.do \in {"write", "reset"} => s \notin Quiet
         /\ s \in Undoing => s.do \in {"write", "read"}
         /\ s \in Undoing /\ s.do = "write" => s.undo = << >>
         /\ Noted(s) \in Seq(Undoing)
<1>1. << >> \in Seq(Undoing)
  OBVIOUS
<1>2. s.do = "write" => s \in Writes
  BY DEF Item, Did, Others, Reads, Matches, Match
<1>3. s.do = "write" => s.undo \in Seq(Undoing)
  BY <1>2 DEF Writes
<1>4. /\ s.do \in {"write", "reset"} => s \notin Quiet
      /\ s \in Undoing => s.do \in {"write", "read"}
      /\ s \in Undoing /\ s.do = "write" => s.undo = << >>
  BY DEF Quiet, Did, Others, Undoing, Reads, Plainly
<1> QED
  BY <1>1, <1>2, <1>3, <1>4 DEF Noted

LEMMA GoesKind ==
  ASSUME Located, phase \in {"forward", "undo", "after"}, Current # << >>,
         Acts(Now), Succeeded(Now), Goes(Noted(Now)),
         phase = "after" => UNCHANGED <<node, base, lied>>
  PROVE  Kinds
<1>1. CASE phase = "forward"
  <2>1. todo # << >> /\ Now = Head(todo)
    BY <1>1, AtHand
  <2>2. Passes(Now)
    BY <1>1, <2>1 DEF Passes, Goes, result
  <2> QED
    BY <2>2 DEF Kinds
<1>2. CASE phase = "undo"
  <2>1. undo # << >> /\ Now = Head(undo)
    BY <1>2, AtHand
  <2>2. Undoes(Now)
    BY <1>2, <2>1 DEF Undoes, Goes, result
  <2> QED
    BY <2>2 DEF Kinds
<1>3. CASE phase = "after"
  <2>1. todo # << >> /\ Now = Head(todo) /\ Now.do \in {"listen", "same"}
    BY <1>3, AtHand
  <2>2. undo' = << >> \o undo /\ undo = << >>
    BY <1>3, <2>1 DEF Goes, Noted, Located, Placed
  <2>3. undo' = undo
    BY <2>2, ConcatEmptySeq DEF Located, Typed
  <2>4. AfterPasses(Now)
    BY <1>3, <2>1, <2>3 DEF AfterPasses, Goes, result
  <2> QED
    BY <2>4 DEF Kinds
<1> QED
  BY <1>1, <1>2, <1>3

LEMMA RaisesKind ==
  ASSUME Located, phase \in {"forward", "undo", "after"}, Current # << >>,
         Acts(Now), NEW more, Raises(more),
         more = Noted(Now) \/ (flow = "validate-burst" /\ phase = "forward" /\ more = << >>),
         phase = "after" => UNCHANGED <<node, base, lied>>
  PROVE  Kinds
<1>1. CASE phase = "forward"
  <2>1. todo # << >> /\ Now = Head(todo)
    BY <1>1, AtHand
  <2>2. << >> \o undo = undo
    BY ConcatEmptySeq DEF Located, Typed
  <2>3. undo' = Noted(Now) \o undo \/ (flow = "validate-burst" /\ undo' = undo)
    BY <1>1, <2>2 DEF Raises
  <2>4. Fails(Now)
    BY <1>1, <2>1, <2>3 DEF Fails, Raises
  <2> QED
    BY <2>4 DEF Kinds
<1>2. CASE phase = "undo"
  <2>1. undo # << >> /\ Now = Head(undo)
    BY <1>2, AtHand
  <2>2. UndoFails(Now)
    BY <1>2, <2>1 DEF UndoFails, Raises
  <2> QED
    BY <2>2 DEF Kinds
<1>3. CASE phase = "after"
  <2>1. AfterFails
    BY <1>3 DEF AfterFails, Raises, End
  <2> QED
    BY <2>1 DEF Kinds
<1> QED
  BY <1>1, <1>2, <1>3

\* Every step is of one of the kinds.
LEMMA StepKinds == ASSUME Located, Next PROVE Kinds
<1> DEFINE Busy(what) == /\ phase \in {"forward", "undo", "after"} /\ Current # << >>
                         /\ Now.do = what /\ Now \in Item
<1>1. ASSUME NEW what, Doing(what)
      PROVE  Busy(what) /\ (phase = "after" => what \in {"listen", "same"})
  <2>1. phase \in {"forward", "undo", "after"} /\ Current # << >> /\ Now.do = what
    BY <1>1 DEF Doing
  <2> QED
    BY <2>1, AtHand
<1>2. ASSUME Doing("write"), dev' \in Stored(Now) \cup {dev},
             UNCHANGED <<sameId, restarted, base>>, lied' \in BOOLEAN, lied => lied'
      PROVE  Acts(Now) /\ phase # "after" /\ Noted(Now) = Now.undo
  <2>1. Now \in Writes /\ Now.do = "write" /\ phase # "after"
    BY <1>1, <1>2, ItemKinds
  <2>2. /\ dev' \in Config /\ dev'[Now.field] \in {Now.value, dev[Now.field]}
        /\ \A g \in Field : g # Now.field /\ g \notin Disturbs[Now.field] => dev'[g] = dev[g]
    BY <1>2, <2>1, StoredFacts DEF Located, Typed
  <2> QED
    BY <1>2, <2>1, <2>2 DEF Acts, Noted, Located, Typed
<1>3. ASSUME Looks \/ Doing("backup") \/ Doing("reset") \/ Doing("reboot"),
             UNCHANGED <<node, base, lied>>
      PROVE  /\ phase \in {"forward", "undo", "after"} /\ Current # << >>
             /\ Acts(Now) /\ Noted(Now) = << >>
  <2>1. PICK what : Doing(what) /\ what # "write"
    BY <1>3 DEF Looks
  <2>2. Busy(what)
    BY <1>1, <2>1
  <2> QED
    BY <1>3, <2>1, <2>2 DEF Acts, Noted, node, Located, Typed
<1>4. ASSUME NEW what \in {"reset", "backup", "reboot"}, Doing(what)
      PROVE  Noted(Now) = << >> /\ Succeeded(Now) /\ Busy(what) /\ phase # "after"
  BY <1>1, <1>4 DEF Noted, Succeeded
<1>5. CASE Refuse \/ NothingToDo
  <2>1. NotBegun
    BY <1>5, MaintenanceAssumption DEF Refuse, NothingToDo, End, NotBegun
  <2> QED
    BY <2>1 DEF Kinds
<1>6. CASE Begin \/ ForwardEnds \/ UndoEnds \/ AfterEnds \/ BurstEnds
  BY <1>6 DEF Kinds
<1>7. CASE WriteDone
  <2>1. /\ Doing("write") /\ dev' \in Stored(Now) \cup {dev}
        /\ UNCHANGED <<sameId, restarted, base>> /\ Goes(Now.undo)
        /\ lied' = (lied \/ dev'[Now.field] # Now.value)
    BY <1>7 DEF WriteDone
  <2>2. lied' \in BOOLEAN /\ (lied => lied')
    BY <2>1 DEF Located, Typed
  <2>3. Acts(Now) /\ phase # "after" /\ Noted(Now) = Now.undo
    BY <1>2, <2>1, <2>2
  <2>4. Busy("write")
    BY <1>1, <2>1
  <2>5. Succeeded(Now)
    BY <2>1, <2>4 DEF Succeeded
  <2> QED
    BY <2>1, <2>3, <2>4, <2>5, GoesKind
<1>8. CASE WriteRaises \/ StartUnnoted
  <2>1. /\ Doing("write") /\ dev' \in Stored(Now) \cup {dev}
        /\ UNCHANGED <<sameId, restarted, base, lied>>
        /\ \/ Raises(Now.undo)
           \/ flow = "validate-burst" /\ phase = "forward" /\ Raises(<< >>)
    BY <1>8 DEF WriteRaises, StartUnnoted
  <2>2. Acts(Now) /\ phase # "after" /\ Noted(Now) = Now.undo
    BY <1>2, <2>1 DEF Located, Typed
  <2>3. Busy("write")
    BY <1>1, <2>1
  <2>4. PICK more : /\ Raises(more)
                    /\ more = Noted(Now) \/
                         (flow = "validate-burst" /\ phase = "forward" /\ more = << >>)
    BY <2>1, <2>2
  <2> QED
    BY <2>2, <2>3, <2>4, RaisesKind
<1>9. CASE StartRejected
  <2>1. Rejected
    BY <1>9 DEF StartRejected, Rejected, End
  <2> QED
    BY <2>1 DEF Kinds
<1>10. CASE ResetDone
  <2>1. /\ Doing("reset") /\ sameId' \in BOOLEAN /\ restarted' = TRUE
        /\ UNCHANGED <<base, lied>>
        /\ Goes(<< >>) \/ Raises(<< >>)
    BY <1>10 DEF ResetDone
  <2>2. dev' \in Config
    BY <1>10 DEF ResetDone, Config, Value, Located, Typed
  <2>3. Noted(Now) = << >> /\ Succeeded(Now) /\ Busy("reset") /\ phase # "after"
    BY <1>4, <2>1
  <2>4. Acts(Now)
    BY <1>10, <2>2, <2>3 DEF ResetDone, Acts, Located, Typed
  <2> QED
    BY <2>1, <2>3, <2>4, GoesKind, RaisesKind
<1>11. CASE BackupTaken \/ RebootSent
  <2>1. PICK what \in {"backup", "reboot"} : Doing(what)
    BY <1>11 DEF BackupTaken, RebootSent
  <2>2. Noted(Now) = << >> /\ Succeeded(Now) /\ Busy(what) /\ phase # "after" /\ Goes(<< >>)
    BY <1>4, <1>11, <2>1 DEF BackupTaken, RebootSent
  <2>3. CASE BackupTaken
    <3>1. Now.do = "backup"
      BY <2>3 DEF BackupTaken, Doing
    <3>2. Acts(Now)
      BY <2>3, <3>1 DEF BackupTaken, Acts, Located, Typed
    <3> QED
      BY <2>2, <3>2, GoesKind
  <2>4. CASE RebootSent
    <3>1. Now.do = "reboot"
      BY <2>4 DEF RebootSent, Doing
    <3>2. Acts(Now)
      BY <2>4, <3>1 DEF RebootSent, Acts, Located, Typed
    <3> QED
      BY <2>2, <3>2, GoesKind
  <2> QED
    BY <1>11, <2>3, <2>4
<1>12. CASE LookPasses
  <2>1. Looks /\ Holds /\ Goes(<< >>) /\ UNCHANGED <<node, base, lied>>
    BY <1>12 DEF LookPasses
  <2>2. /\ phase \in {"forward", "undo", "after"} /\ Current # << >>
        /\ Acts(Now) /\ Noted(Now) = << >>
    BY <1>3, <2>1
  <2>3. Now.do # "write"
    BY <2>1 DEF Looks, Doing
  <2>4. Succeeded(Now)
    BY <2>1, <2>3 DEF Holds, Succeeded
  <2> QED
    BY <2>1, <2>2, <2>4, GoesKind
<1>13. CASE StepRaises
  <2>1. /\ Looks \/ Doing("backup") \/ Doing("reset") \/ Doing("reboot")
        /\ Raises(<< >>) /\ UNCHANGED <<node, base, lied>>
    BY <1>13 DEF StepRaises
  <2>2. /\ phase \in {"forward", "undo", "after"} /\ Current # << >>
        /\ Acts(Now) /\ Noted(Now) = << >>
    BY <1>3, <2>1
  <2> QED
    BY <2>1, <2>2, RaisesKind
<1> QED
  BY <1>5, <1>6, <1>7, <1>8, <1>9, <1>10, <1>11, <1>12, <1>13 DEF Next

-----------------------------------------------------------------------------
(* Where a flow is, is an invariant. *)

\* The step at the head of what is left is one that the flow may have.
LEMMA Ahead ==
  ASSUME Located, phase = "forward", todo # << >>,
         NEW F, F = Forward(flow, start)
  PROVE  /\ Len(F) \in Nat /\ Len(todo) \in 1 .. Len(F)
         /\ Tail(todo) \in Seq(Item) /\ Len(Tail(todo)) = Len(todo) - 1
         /\ Rest(Tail(todo), F)
         /\ Len(F) - Len(todo) + 1 \in 1 .. Len(F)
         /\ Head(todo) = F[Len(F) - Len(todo) + 1] /\ Head(todo) \in Item
         /\ flow \in Flows
         /\ flow \in Validations => Head(todo) \in Testing
         /\ flow = "profile" => Head(todo) \in Setting
         /\ flow \in {"credentials", "post-reset", "reboot"} => Head(todo) \in Simple
         /\ flow = "reboot" => Head(todo) \in Quiet
         /\ flow \in {"factory-reset", "recover"} =>
              IF Len(todo) = Len(F) THEN Head(todo) = Do("reset") ELSE Head(todo) \in Simple
<1>1. flow \in Flows /\ start \in Config /\ Rest(todo, F) /\ todo \in Seq(Item)
  BY DEF Located, Typed, Placed
<1>2. F \in Seq(Item)
  BY <1>1, FlowSteps
<1>3. /\ Len(F) \in Nat /\ Len(todo) \in 1 .. Len(F)
      /\ Tail(todo) \in Seq(Item) /\ Len(Tail(todo)) = Len(todo) - 1
      /\ Rest(Tail(todo), F)
      /\ Len(F) - Len(todo) + 1 \in 1 .. Len(F)
      /\ Head(todo) = F[Len(F) - Len(todo) + 1] /\ Head(todo) \in Item
  BY <1>1, <1>2, RestTail, HeadTailProperties
<1>4. /\ flow \in Validations => Head(todo) \in Testing
      /\ flow = "profile" => Head(todo) \in Setting
      /\ flow \in {"credentials", "post-reset", "reboot"} => Head(todo) \in Simple
      /\ flow = "reboot" => Head(todo) \in Quiet
  BY <1>1, <1>3, FlowSteps, ElementOfSeq
<1>5. ASSUME flow \in {"factory-reset", "recover"}
      PROVE  IF Len(todo) = Len(F) THEN Head(todo) = Do("reset") ELSE Head(todo) \in Simple
  <2>1. F[1] = Do("reset") /\ \A i \in 2 .. Len(F) : F[i] \in Simple
    BY <1>1, <1>5, FlowSteps
  <2>2. Len(F) - Len(todo) + 1 = IF Len(todo) = Len(F) THEN 1 ELSE Len(F) - Len(todo) + 1
    BY <1>3
  <2>3. Len(todo) # Len(F) => Len(F) - Len(todo) + 1 \in 2 .. Len(F)
    BY <1>3
  <2> QED
    BY <1>3, <2>1, <2>2, <2>3
<1> QED
  BY <1>1, <1>3, <1>4, <1>5

\* Of a step that is not one of a validation or a profile nothing is noted.
LEMMA SimpleKinds ==
  ASSUME NEW s
  PROVE  /\ s \in Simple \cup {Do("reset")} => Noted(s) = << >>
         /\ s \in Simple => s.do # "reset"
         /\ s \in Testing \cup Setting => s.do \in {"write", "read", "match", "listen"}
         /\ s \in Quiet => s.do \notin {"write", "reset"}
BY DEF Simple, Reads, Plainly, Matches, Match, Did, Do, Others, Noted, Testing, Setting,
       Writes, Quiet

LEMMA LocatedInit == ASSUME Init PROVE Located
<1>1. dev \in Config
  BY DEF Init, Config, Value
<1>2. << >> \in Seq(Item) /\ << >> \in Seq(Undoing)
  OBVIOUS
<1> QED
  BY <1>1, <1>2 DEF Init, Located, Typed, Placed, Validations

LEMMA LocatedStep == ASSUME Located, [Next]_vars PROVE Located'
<1>0. Typed /\ Placed
  BY DEF Located
<1> DEFINE F == Forward(flow, start)
<1>1. CASE UNCHANGED vars
  BY <1>0, <1>1 DEF vars, Located, Typed, Placed
<1>2. CASE NotBegun
  BY <1>0, <1>2 DEF NotBegun, node, Located, Typed, Placed
<1>3. CASE Begin
  <2>1. PICK fl \in Offered : flow' = fl /\ todo' = Forward(fl, dev)
    BY <1>3 DEF Begin
  <2>2. fl \in Flows /\ dev = start /\ dev \in Config
    BY <1>0, <1>3, MaintenanceAssumption DEF Begin, Typed, Placed
  <2>3. todo' \in Seq(Item) /\ Rest(todo', Forward(fl, dev))
    BY <2>1, <2>2, FlowSteps, RestAll
  <2>4. start' = start /\ Rest(todo', Forward(flow', start'))
    BY <1>3, <2>1, <2>2, <2>3 DEF Begin
  <2> QED
    BY <1>0, <1>3, <2>1, <2>2, <2>3, <2>4
       DEF Begin, node, result, Located, Typed, Placed
<1>4. CASE ForwardEnds
  <2>1. << >> \in Seq(Undoing)
    OBVIOUS
  <2> QED
    BY <1>0, <1>4, <2>1 DEF ForwardEnds, End, node, Located, Typed, Placed
<1>5. CASE UndoEnds
  <2>1. /\ phase = "undo" /\ undo = << >>
        /\ UNCHANGED <<node, flow, undo, base, raised, undoFailed, start, lied>>
    BY <1>5 DEF UndoEnds
  <2>2. CASE raised \/ undoFailed
    BY <1>0, <1>5, <2>1, <2>2 DEF UndoEnds, End, node, Located, Typed, Placed
  <2>3. CASE ~ raised /\ ~ undoFailed
    <3>1. phase' = "after" /\ todo' = After(flow) /\ outcome' = outcome
      BY <1>5, <2>3 DEF UndoEnds, End
    <3>2. After(flow) \in Seq(Watching) /\ Watching \subseteq Item
      BY AfterSteps, Inclusions
    <3>3. todo' \in Seq(Item) /\ Rest(todo', After(flow))
      BY <3>1, <3>2, SeqMonotonic, RestAll
    <3>4. flow' = flow
      BY <2>1
    <3>5. Rest(todo', After(flow'))
      BY <3>3, <3>4
    <3> QED
      BY <1>0, <2>1, <2>3, <3>1, <3>3, <3>5 DEF node, Located, Typed, Placed
  <2> QED
    BY <1>0, <2>2, <2>3 DEF Typed
<1>6. CASE AfterEnds
  BY <1>0, <1>6 DEF AfterEnds, End, node, Located, Typed, Placed
<1>7. CASE BurstEnds
  <2>1. dev' \in Config
    BY <1>0, <1>7 DEF BurstEnds, Typed, Config, Field, Value
  <2> QED
    BY <1>0, <1>7, <2>1 DEF BurstEnds, result, Located, Typed, Placed
<1>8. ASSUME NEW s, phase = "forward", todo # << >>, s = Head(todo), Acts(s),
   undo' = Noted(s) \o undo
      PROVE  /\ undo' \in Seq(Undoing)
             /\ flow \notin Validations \cup {"profile"} => undo' = << >>
             /\ flow \in Validations \cup {"profile"} => base' = start
  <2>1. s \in Item
    BY <1>8, Ahead
  <2>2. undo' \in Seq(Undoing)
    BY <1>0, <1>8, <2>1, ItemKinds, ConcatProperties DEF Typed
  <2>3. ASSUME flow \notin Validations \cup {"profile"} PROVE undo' = << >>
    <3>1. s \in Simple \cup {Do("reset")}
      BY <1>8, <2>3, Ahead DEF Flows
    <3>2. Noted(s) = << >> /\ undo = << >>
      BY <1>0, <2>3, <3>1, SimpleKinds DEF Placed
    <3> QED
      BY <1>8, <3>2
  <2>4. ASSUME flow \in Validations \cup {"profile"} PROVE base' = start
    <3>1. s.do # "backup"
      BY <1>8, <2>4, Ahead, SimpleKinds
    <3> QED
      BY <1>0, <1>8, <2>4, <3>1 DEF Acts, Placed
  <2> QED
    BY <2>2, <2>3, <2>4
<1>9. ASSUME NEW s, Passes(s) PROVE Located'
  <2>1. /\ undo' \in Seq(Undoing)
        /\ flow \notin Validations \cup {"profile"} => undo' = << >>
        /\ flow \in Validations \cup {"profile"} => base' = start
    BY <1>8, <1>9 DEF Passes
  <2>2. todo' \in Seq(Item) /\ Rest(todo', F)
    BY <1>9, Ahead DEF Passes
  <2>3. flow' = flow /\ start' = start
    BY <1>9 DEF Passes
  <2>4. Rest(todo', Forward(flow', start'))
    BY <2>2, <2>3
  <2>5. Typed'
    BY <1>0, <1>9, <2>1, <2>2 DEF Passes, Acts, result, Typed
  <2>6. Placed'
    BY <1>0, <1>9, <2>1, <2>3, <2>4 DEF Passes, result, Placed
  <2> QED
    BY <2>5, <2>6 DEF Located
<1>10. ASSUME NEW s, Fails(s) PROVE Located'
  <2>1. undo' \in Seq(Undoing) /\ (flow \notin Validations \cup {"profile"} => undo' = << >>)
    BY <1>0, <1>8, <1>10 DEF Fails, Typed, Placed
  <2>2. flow \in Validations \cup {"profile"} => base' = start
    <3>1. CASE undo' = Noted(s) \o undo
      BY <1>8, <1>10, <3>1 DEF Fails
    <3>2. CASE flow = "validate-burst"
      <4>1. s.do # "backup"
        BY <1>10, <3>2, Ahead, SimpleKinds DEF Fails, Validations
      <4> QED
        BY <1>0, <1>10, <3>2, <4>1 DEF Fails, Acts, Placed
    <3> QED
      BY <1>10, <3>1, <3>2 DEF Fails
  <2>3. << >> \in Seq(Item)
    OBVIOUS
  <2>4. Typed'
    BY <1>0, <1>10, <2>1, <2>3 DEF Fails, Acts, Typed
  <2>5. Placed'
    BY <1>0, <1>10, <2>1, <2>2 DEF Fails, Placed
  <2> QED
    BY <2>4, <2>5 DEF Located
<1>11. CASE Rejected
  <2>1. << >> \in Seq(Item)
    OBVIOUS
  <2> QED
    BY <1>0, <1>11, <2>1 DEF Rejected, node, Located, Typed, Placed
<1>12. ASSUME NEW s, Undoes(s) \/ UndoFails(s) PROVE Located'
  <2>1. phase = "undo" /\ undo # << >> /\ s = Head(undo) /\ Acts(s)
    BY <1>12 DEF Undoes, UndoFails
  <2>0. << >> \in Seq(Undoing)
    OBVIOUS
  <2>2. s \in Undoing /\ Tail(undo) \in Seq(Undoing)
    BY <1>0, <2>1, HeadTailProperties DEF Typed
  <2>3. s.do # "backup"
    BY <2>2, Inclusions, ItemKinds
  <2>4. base' = base
    BY <2>1, <2>3 DEF Acts
  <2>5. undo' \in Seq(Undoing)
    BY <1>12, <2>0, <2>2 DEF Undoes, UndoFails
  <2>6. Typed'
    BY <1>0, <1>12, <2>1, <2>5 DEF Undoes, UndoFails, Acts, result, Typed
  <2>7. Placed'
    BY <1>0, <1>12, <2>1, <2>4 DEF Undoes, UndoFails, result, Placed
  <2> QED
    BY <2>6, <2>7 DEF Located
<1>13. ASSUME NEW s, AfterPasses(s) PROVE Located'
  <2>1. todo' \in Seq(Item) /\ Rest(todo', After(flow))
    <3>1. phase = "after" /\ todo # << >> /\ todo' = Tail(todo)
      BY <1>13 DEF AfterPasses
    <3> QED
      BY <1>0, <3>1, AfterSteps, RestTail DEF Typed, Placed
  <2>2. flow' = flow
    BY <1>13 DEF AfterPasses
  <2>3. Rest(todo', After(flow'))
    BY <2>1, <2>2
  <2> QED
    BY <1>0, <1>13, <2>1, <2>3 DEF AfterPasses, node, result, Located, Typed, Placed
<1>14. CASE AfterFails
  BY <1>0, <1>14 DEF AfterFails, node, Located, Typed, Placed
<1> QED
  BY <1>1, <1>2, <1>3, <1>4, <1>5, <1>6, <1>7, <1>9, <1>10, <1>11, <1>12, <1>13, <1>14,
     StepKinds DEF Kinds

LEMMA LocatedAlways == Spec => []Located
BY LocatedInit, LocatedStep, PTL DEF Spec

\* The variables of the flows have their types, whatever the node ignores or
\* disturbs: an outcome is told exactly when a flow has ended, and the look at
\* the node after the finally clause only begins when nothing has raised.
THEOREM FlowTypes == Spec => []TypeOK
<1>1. ASSUME Located PROVE TypeOK
  <2>1. \A s \in Item : s.do \in Step
    BY DEF Item, Did, Others, Reads, Matches, Match, Writes, Step
  <2>2. \A s \in Undoing : s.do \in {"write", "read"}
    BY Inclusions, ItemKinds
  <2>3. (\A i \in 1 .. Len(todo) : todo[i] \in Item)
        /\ \A i \in 1 .. Len(undo) : undo[i] \in Undoing
    BY <1>1, ElementOfSeq DEF Located, Typed
  <2> QED
    BY <1>1, <2>1, <2>2, <2>3 DEF Located, Typed, Placed, Config, TypeOK
<1> QED
  BY <1>1, LocatedAlways, PTL

-----------------------------------------------------------------------------
(* Nothing is written to a node that is not the one confirmed. *)

\* Only a reset makes the ID another, and then the steps until the ID is
\* confirmed only look.
NodeKnown ==
  ~ sameId =>
    /\ flow \in {"factory-reset", "recover"}
    /\ phase = "forward" =>
         Len(todo) < Len(Forward(flow, start)) /\ Len(todo) + 2 >= Len(Forward(flow, start))

\* The steps behind a reset.
LEMMA BehindReset ==
  ASSUME Located, phase = "forward", todo # << >>, flow \in {"factory-reset", "recover"},
         Len(todo) < Len(Forward(flow, start)), Len(todo) + 2 >= Len(Forward(flow, start))
  PROVE  \/ Head(todo) = Do("wait") /\ Len(todo) + 1 = Len(Forward(flow, start))
         \/ Head(todo) = Do("confirm")
<1> DEFINE F == Forward(flow, start)
           n == Len(todo)
           m == Len(F)
<1>1. /\ m \in Nat /\ n \in 1 .. m /\ n < m /\ n + 2 >= m
      /\ Head(todo) = F[m - n + 1]
  BY Ahead
<1>2. start \in Config
  BY DEF Located, Typed
<1> HIDE DEF n, m
<1>3. (n + 1 = m /\ m - n + 1 = 2) \/ (n + 2 = m /\ m - n + 1 = 3)
  BY <1>1
<1>4. CASE flow = "factory-reset"
  <2>1. F = FactoryReset
    BY <1>4 DEF Forward
  <2>2. m = 2 /\ F[2] = Do("wait")
    BY <2>1, FactoryResetSteps DEF m
  <2>3. n + 1 = m /\ m - n + 1 = 2
    BY <1>1, <1>3, <2>2
  <2>4. Head(todo) = F[2]
    BY <1>1, <2>3
  <2> QED
    BY <2>2, <2>3, <2>4 DEF n, m
<1>5. CASE flow = "recover"
  <2>1. F = Recover(start)
    BY <1>5 DEF Forward
  <2>2. F[2] = Do("wait") /\ F[3] = Do("confirm")
    BY <1>2, <2>1, RecoverSteps
  <2> QED
    BY <1>1, <1>3, <2>2 DEF n, m
<1> QED
  BY <1>4, <1>5

\* Only a reset changes the ID of the node, and only as the first step.
LEMMA IdChanges ==
  ASSUME Located, phase = "forward", todo # << >>, Acts(Head(todo)), sameId' # sameId
  PROVE  flow \in {"factory-reset", "recover"} /\ Len(todo) = Len(Forward(flow, start))
<1>1. Head(todo).do = "reset"
  BY DEF Acts
<1>2. Head(todo) \notin Simple /\ Head(todo) \notin Testing \cup Setting
  BY <1>1, SimpleKinds
<1>3. flow \in {"factory-reset", "recover"}
  BY <1>2, Ahead DEF Flows
<1> QED
  BY <1>2, <1>3, Ahead

LEMMA NodeKnownStep ==
  ASSUME Located, NodeKnown, [Next]_vars
  PROVE  NodeKnown' /\ (~ sameId => \A f \in Saved : dev'[f] = dev[f])
<1>0. Typed /\ Placed
  BY DEF Located
<1>1. CASE UNCHANGED vars
  BY <1>1 DEF vars, NodeKnown
<1>2. CASE NotBegun
  BY <1>0, <1>2 DEF NotBegun, node, Placed, NodeKnown
<1>3. CASE Begin
  BY <1>0, <1>3 DEF Begin, node, Placed, NodeKnown
<1>4. CASE ForwardEnds \/ UndoEnds \/ AfterEnds \/ Rejected \/ AfterFails
  <2>1. UNCHANGED <<dev, sameId, flow>> /\ phase' # "forward"
    BY <1>4 DEF ForwardEnds, UndoEnds, AfterEnds, Rejected, AfterFails, End, node
  <2> QED
    BY <2>1 DEF NodeKnown
<1>5. CASE BurstEnds
  <2>1. \A f \in Saved : dev'[f] = dev[f]
    BY <1>0, <1>5 DEF BurstEnds, Saved, Field, Typed, Config
  <2> QED
    BY <1>5, <2>1 DEF BurstEnds, NodeKnown
<1>6. ASSUME NEW s, Passes(s) \/ Fails(s)
      PROVE  NodeKnown' /\ (~ sameId => \A f \in Saved : dev'[f] = dev[f])
  <2>1. /\ phase = "forward" /\ todo # << >> /\ s = Head(todo) /\ Acts(s)
        /\ flow' = flow /\ start' = start
    BY <1>6 DEF Passes, Fails
  <2>2. Len(Tail(todo)) = Len(todo) - 1 /\ Len(todo) \in Nat /\ Len(Forward(flow, start)) \in Nat
    BY <2>1, Ahead
  <2>3. CASE ~ sameId
    <3>1. /\ flow \in {"factory-reset", "recover"}
          /\ \/ s = Do("wait") /\ Len(todo) + 1 = Len(Forward(flow, start))
             \/ s = Do("confirm")
      BY <2>1, <2>3, BehindReset DEF NodeKnown
    <3>2. dev' = dev
      BY <2>1, <3>1 DEF Acts, Do
    <3>3. CASE Passes(s)
      <4>1. s.do # "confirm"
        BY <2>3, <3>3 DEF Passes, Succeeded
      <4>2. Len(todo) + 1 = Len(Forward(flow, start)) /\ todo' = Tail(todo)
        BY <3>1, <3>3, <4>1 DEF Passes, Do
      <4>3. Len(todo') = Len(todo) - 1
        BY <2>2, <4>2
      <4>4. Forward(flow', start') = Forward(flow, start)
        BY <2>1
      <4> QED
        BY <2>1, <2>2, <3>1, <3>2, <4>2, <4>3, <4>4 DEF NodeKnown
    <3>4. CASE Fails(s)
      BY <2>1, <3>1, <3>2, <3>4 DEF Fails, NodeKnown
    <3> QED
      BY <1>6, <3>3, <3>4
  <2>4. CASE sameId /\ ~ sameId'
    <3>1. flow \in {"factory-reset", "recover"} /\ Len(todo) = Len(Forward(flow, start))
      BY <2>1, <2>4, IdChanges
    <3>2. CASE Passes(s)
      <4>1. Len(todo') = Len(todo) - 1
        BY <2>2, <3>2 DEF Passes
      <4>2. Forward(flow', start') = Forward(flow, start)
        BY <2>1
      <4> QED
        BY <2>1, <2>2, <2>4, <3>1, <4>1, <4>2 DEF NodeKnown
    <3>3. CASE Fails(s)
      BY <2>1, <2>4, <3>1, <3>3 DEF Fails, NodeKnown
    <3> QED
      BY <1>6, <3>2, <3>3
  <2> QED
    BY <2>3, <2>4 DEF NodeKnown
<1>7. ASSUME NEW s, Undoes(s) \/ UndoFails(s)
      PROVE  NodeKnown' /\ (~ sameId => \A f \in Saved : dev'[f] = dev[f])
  <2>1. /\ phase = "undo" /\ undo # << >> /\ s = Head(undo) /\ Acts(s)
        /\ flow' = flow /\ phase' = phase
    BY <1>7 DEF Undoes, UndoFails
  <2>2. sameId' = sameId
    <3>1. s \in Undoing
      BY <1>0, <2>1, HeadTailProperties DEF Typed
    <3> QED
      BY <2>1, <3>1, ItemKinds, Inclusions DEF Acts
  <2>3. sameId
    BY <1>0, <2>1 DEF NodeKnown, Placed, Validations
  <2> QED
    BY <2>2, <2>3 DEF NodeKnown
<1>8. ASSUME NEW s, AfterPasses(s)
      PROVE  NodeKnown' /\ (~ sameId => \A f \in Saved : dev'[f] = dev[f])
  BY <1>8 DEF AfterPasses, node, NodeKnown
<1> QED
  BY <1>1, <1>2, <1>3, <1>4, <1>5, <1>6, <1>7, <1>8, StepKinds DEF Kinds

\* Whatever the flow, the node it finds after a reset and the writes that fail:
\* a node whose ID is not the confirmed one keeps its saved fields in every
\* step, so the write after the reset is behind the confirmation of the ID.
THEOREM OnlyTheConfirmedNode == Spec => ConfirmedNodeOnly
<1>1. Init => NodeKnown
  BY DEF Init, NodeKnown
<1>2. Spec => [](Located /\ NodeKnown)
  <2>1. Init => Located /\ NodeKnown
    BY <1>1, LocatedInit
  <2>2. Located /\ NodeKnown /\ [Next]_vars => (Located /\ NodeKnown)'
    BY LocatedStep, NodeKnownStep
  <2> QED
    BY <2>1, <2>2, PTL DEF Spec
<1>3. Located /\ NodeKnown /\ [Next]_vars => [~ sameId => \A f \in Saved : dev'[f] = dev[f]]_vars
  BY NodeKnownStep
<1> QED
  BY <1>2, <1>3, PTL DEF Spec, ConfirmedNodeOnly

-----------------------------------------------------------------------------
(* What a flow has established when it has so many steps left. *)

Established ==
  /\ flow = "profile" =>
       /\ Len(todo) <= 1 => dev["general"] = "new" /\ dev["uplink"] = "new"
       /\ Len(todo) = 0 => Untouched(PreservedFields)
  /\ flow = "reboot" => Untouched(Saved)
  /\ flow \in {"credentials", "post-reset"} => (Len(todo) = 0 => dev["network"] = "new")
  /\ flow = "recover" =>
       /\ Len(todo) <= 3 => sameId
       /\ Len(todo) = 0 => \A f \in Saved : dev[f] = Target(start)[f]

Accomplished ==
  /\ phase = "forward" => Established
  /\ phase = "after" /\ todo = << >> => Untouched(Saved)
  /\ SuccessMeansConfigured

\* The steps a flow ends with.
LEMMA LastSteps ==
  ASSUME Located, phase = "forward", todo # << >>
  PROVE  /\ flow = "profile" =>
              /\ Len(todo) = 2 => Head(todo) = Match([f \in {"general", "uplink"} |-> "new"])
              /\ Len(todo) = 1 => Head(todo) = Match([f \in PreservedFields |-> start[f]])
         /\ flow \in {"credentials", "post-reset"} => (Len(todo) = 1 => Head(todo) = Network)
         /\ flow = "recover" =>
              /\ Len(Forward(flow, start)) = 26
              /\ Len(todo) = 4 => Head(todo) = Do("health")
              /\ Len(todo) = 1 => Head(todo) = Match(Target(start))
<1> DEFINE F == Forward(flow, start)
           n == Len(todo)
           m == Len(F)
<1>1. m \in Nat /\ n \in 1 .. m /\ Head(todo) = F[m - n + 1]
  BY Ahead
<1>2. start \in Config
  BY DEF Located, Typed
<1> HIDE DEF n, m
<1>3. (n = 1 => m - n + 1 = m) /\ (n = 2 => m - n + 1 = m - 1) /\ (n = 4 => m - n + 1 = m - 3)
  BY <1>1
<1>4. CASE flow = "profile"
  <2>1. F = Profile(start)
    BY <1>4 DEF Forward
  <2>2. /\ m = 6 /\ F[5] = Match([f \in {"general", "uplink"} |-> "new"])
        /\ F[6] = Match([f \in PreservedFields |-> start[f]])
    BY <1>2, <2>1, ProfileSteps DEF m
  <2> HIDE DEF F
  <2>3. 6 - 1 = 5
    OBVIOUS
  <2> QED
    BY <1>1, <1>3, <1>4, <2>2, <2>3 DEF n
<1>5. CASE flow \in {"credentials", "post-reset"}
  <2>1. F = Credentials \/ F = PostReset
    BY <1>5 DEF Forward
  <2>2. F[m] = Network
    BY <2>1, CredentialsSteps, PostResetSteps DEF m
  <2> HIDE DEF F
  <2> QED
    BY <1>1, <1>3, <1>5, <2>2 DEF n
<1>6. CASE flow = "recover"
  <2>1. F = Recover(start)
    BY <1>6 DEF Forward
  <2>2. m = 26 /\ F[23] = Do("health") /\ F[26] = Match(Target(start))
    BY <1>2, <2>1, RecoverSteps DEF m
  <2>3. Len(Forward(flow, start)) = 26
    BY <2>2 DEF m
  <2> HIDE DEF F
  <2>4. 26 - 3 = 23
    OBVIOUS
  <2> QED
    BY <1>1, <1>3, <1>6, <2>2, <2>3, <2>4 DEF n
<1> QED
  BY <1>4, <1>5, <1>6

\* What a step that passes has established.
LEMMA EstablishedStep ==
  ASSUME Located, Established, NEW s, Passes(s)
  PROVE  Established'
<1>1. /\ phase = "forward" /\ todo # << >> /\ s = Head(todo) /\ todo' = Tail(todo)
      /\ Acts(s) /\ Succeeded(s) /\ flow' = flow /\ start' = start
  BY DEF Passes
<1>2. Len(todo) \in Nat \ {0} /\ Len(todo') = Len(todo) - 1
  BY <1>1, Ahead
<1>3. \A want : s = Match(want) => dev' = dev /\ \A f \in DOMAIN want : dev[f] = want[f]
  BY <1>1 DEF Acts, Succeeded, Match
<1>4. CASE flow = "profile"
  <2>1. /\ Len(todo) = 2 => s = Match([f \in {"general", "uplink"} |-> "new"])
        /\ Len(todo) = 1 => s = Match([f \in PreservedFields |-> start[f]])
    BY <1>1, <1>4, LastSteps
  <2>2. CASE Len(todo) = 2
    <3>1. dev' = dev /\ \A f \in {"general", "uplink"} : dev[f] = "new"
      BY <1>3, <2>1, <2>2
    <3> QED
      BY <1>1, <1>2, <1>4, <2>2, <3>1 DEF Established
  <2>3. CASE Len(todo) = 1
    <3>1. dev' = dev /\ \A f \in PreservedFields : dev[f] = start[f]
      BY <1>3, <2>1, <2>3
    <3>2. dev["general"] = "new" /\ dev["uplink"] = "new"
      BY <1>4, <2>3 DEF Established
    <3> QED
      BY <1>1, <1>4, <3>1, <3>2 DEF Established, Untouched
  <2>4. CASE Len(todo) > 2
    BY <1>1, <1>2, <1>4, <2>4 DEF Established
  <2> QED
    BY <1>2, <2>2, <2>3, <2>4
<1>5. CASE flow = "reboot"
  <2>1. s.do \notin {"write", "reset"}
    BY <1>1, <1>5, Ahead, SimpleKinds
  <2>2. dev' = dev
    BY <1>1, <2>1 DEF Acts
  <2> QED
    BY <1>1, <1>5, <2>2 DEF Established, Untouched
<1>6. CASE flow \in {"credentials", "post-reset"}
  <2>1. CASE Len(todo) = 1
    <3>1. s = Match([f \in {"network"} |-> "new"])
      BY <1>1, <1>6, <2>1, LastSteps DEF Network
    <3>2. dev' = dev /\ \A f \in {"network"} : dev[f] = "new"
      BY <1>3, <3>1
    <3> QED
      BY <1>1, <1>6, <3>2 DEF Established
  <2>2. CASE Len(todo) > 1
    BY <1>1, <1>2, <1>6, <2>2 DEF Established
  <2> QED
    BY <1>2, <2>1, <2>2
<1>7. CASE flow = "recover"
  <2>1. Len(todo) # 26 => sameId' = sameId
    BY <1>1, <1>7, IdChanges, LastSteps
  <2>2. Len(todo') <= 3 => sameId'
    <3>1. CASE Len(todo) = 4
      <4>1. s = Do("health")
        BY <1>1, <1>7, <3>1, LastSteps
      <4>2. sameId
        BY <1>1, <4>1 DEF Succeeded, Do
      <4> QED
        BY <2>1, <3>1, <4>2
    <3>2. CASE Len(todo) <= 3
      <4>0. \A n \in Nat : n <= 3 => n # 26
        OBVIOUS
      <4>1. Len(todo) # 26
        BY <1>2, <3>2, <4>0
      <4>2. sameId
        BY <1>7, <3>2 DEF Established
      <4> QED
        BY <2>1, <4>1, <4>2
    <3> QED
      BY <1>2, <3>1, <3>2
  <2>3. ASSUME Len(todo') = 0 PROVE \A f \in Saved : dev'[f] = Target(start')[f]
    <3>1. Len(todo) = 1
      BY <1>2, <2>3
    <3>2. s = Match(Target(start))
      BY <1>1, <1>7, <3>1, LastSteps
    <3>3. DOMAIN Target(start) = Saved
      BY DEF Target
    <3>4. dev' = dev /\ \A f \in Saved : dev[f] = Target(start)[f]
      BY <1>3, <3>2, <3>3
    <3>5. Target(start') = Target(start)
      BY <1>1
    <3> QED
      BY <3>4, <3>5
  <2> QED
    BY <1>1, <1>7, <2>2, <2>3 DEF Established
<1>8. CASE flow \in Flows \ {"profile", "reboot", "credentials", "post-reset", "recover"}
  BY <1>1, <1>8 DEF Established
<1> QED
  BY <1>1, <1>4, <1>5, <1>6, <1>7, <1>8, Ahead

\* While the saved fields stay, so does what was established.
LEMMA StillAccomplished ==
  ASSUME Accomplished, Located, \A f \in Saved : dev'[f] = dev[f],
         UNCHANGED <<flow, start, sameId>>
  PROVE  /\ todo' = todo /\ Established => Established'
         /\ Untouched(Saved) => Untouched(Saved)'
         /\ outcome' = outcome \/ outcome' # "done" => SuccessMeansConfigured'
<1>1. /\ {"general", "uplink", "network"} \subseteq Saved /\ PreservedFields \subseteq Saved
  BY DEF Saved, Field, PreservedFields
<1>2. \A f \in Saved : Target(start')[f] = Target(start)[f]
  OBVIOUS
<1>3. todo' = todo /\ Established => Established'
  BY <1>1, <1>2 DEF Established, Untouched
<1>4. Untouched(Saved) => Untouched(Saved)'
  BY DEF Untouched
<1>5. SuccessMeansConfigured
  BY DEF Accomplished
<1>6. outcome' = outcome \/ outcome' # "done" => SuccessMeansConfigured'
  BY <1>1, <1>2, <1>5 DEF SuccessMeansConfigured, Untouched
<1> QED
  BY <1>3, <1>4, <1>6

LEMMA AccomplishedStep ==
  ASSUME Located, Accomplished, [Next]_vars
  PROVE  Accomplished'
<1>0. Typed /\ Placed
  BY DEF Located
<1>1. ASSUME \A f \in Saved : dev'[f] = dev[f],
   UNCHANGED <<flow, start, sameId, phase, todo, outcome>>
      PROVE  Accomplished'
  BY <1>1, StillAccomplished DEF Accomplished
<1>2. CASE UNCHANGED vars
  BY <1>1, <1>2 DEF vars
<1>3. CASE BurstEnds
  <2>1. \A f \in Saved : dev'[f] = dev[f]
    BY <1>0, <1>3 DEF BurstEnds, Saved, Field, Typed, Config
  <2> QED
    BY <1>1, <1>3, <2>1 DEF BurstEnds, result
<1>4. CASE NotBegun
  BY <1>0, <1>4 DEF NotBegun, Accomplished, SuccessMeansConfigured
<1>5. CASE Begin
  <2>1. PICK fl \in Offered : flow' = fl /\ todo' = Forward(fl, dev)
    BY <1>5 DEF Begin
  <2>2. dev = start /\ start' = start /\ dev' = dev /\ start \in Config /\ fl \in Flows
        /\ sameId /\ sameId' = sameId /\ outcome' = "none" /\ phase' = "forward"
    BY <1>0, <1>5, <2>1, MaintenanceAssumption DEF Begin, node, result, Typed, Placed
  <2>3. /\ fl = "profile" => Len(todo') = 6
        /\ fl = "credentials" => Len(todo') = 5
        /\ fl = "post-reset" => Len(todo') = 18
        /\ fl = "recover" => Len(todo') = 26
    BY <2>1, <2>2, ProfileSteps, CredentialsSteps, PostResetSteps, RecoverSteps DEF Forward
  <2>5. \A n \in {5, 6, 18, 26} : ~ n <= 1 /\ ~ n <= 3 /\ n # 0
    OBVIOUS
  <2>6. /\ fl = "profile" => ~ Len(todo') <= 1 /\ Len(todo') # 0
        /\ fl \in {"credentials", "post-reset"} => Len(todo') # 0
        /\ fl = "recover" => ~ Len(todo') <= 3 /\ Len(todo') # 0
    BY <2>3, <2>5
  <2>4. Established'
    BY <2>1, <2>2, <2>6 DEF Established, Untouched
  <2> QED
    BY <2>2, <2>4 DEF Accomplished, SuccessMeansConfigured
<1>6. CASE ForwardEnds
  <2>1. /\ phase = "forward" /\ todo = << >> /\ UNCHANGED <<dev, sameId, flow, start>>
        /\ \/ flow \in Validations /\ phase' = "undo" /\ outcome' = outcome
           \/ flow \notin Validations /\ phase' = "ended" /\ outcome' = "done"
    BY <1>6 DEF ForwardEnds, End, node
  <2>2. CASE flow \in Validations
    BY <1>0, <2>1, <2>2, StillAccomplished DEF Accomplished
  <2>3. CASE flow \notin Validations
    <3>1. Established /\ Len(todo) = 0
      BY <2>1 DEF Accomplished
    <3>2. Target(start') = Target(start)
      BY <2>1
    <3>3. SuccessMeansConfigured'
      BY <2>1, <2>3, <3>1, <3>2 DEF Established, SuccessMeansConfigured, Untouched
    <3> QED
      BY <2>1, <2>3, <3>3 DEF Accomplished
  <2> QED
    BY <2>2, <2>3
<1>7. CASE UndoEnds
  <2>1. /\ phase = "undo" /\ UNCHANGED <<dev, sameId, flow, start>>
        /\ \/ phase' = "ended" /\ outcome' # "done"
           \/ phase' = "after" /\ todo' = After(flow) /\ outcome' = outcome
    BY <1>7 DEF UndoEnds, End, node
  <2>2. After(flow) # << >>
    BY AfterSteps
  <2>3. SuccessMeansConfigured'
    BY <2>1, StillAccomplished
  <2> QED
    BY <2>1, <2>2, <2>3 DEF Accomplished
<1>8. CASE AfterEnds
  <2>1. /\ phase = "after" /\ todo = << >> /\ UNCHANGED <<dev, sameId, flow, start>>
        /\ phase' = "ended" /\ outcome' = "done"
    BY <1>8 DEF AfterEnds, End, node
  <2>2. Untouched(Saved) /\ flow \in Validations
    BY <1>0, <2>1 DEF Accomplished, Placed
  <2> QED
    BY <2>1, <2>2 DEF Accomplished, SuccessMeansConfigured, Untouched, Validations
<1>9. CASE Rejected \/ AfterFails
  <2>1. UNCHANGED <<dev, sameId, flow, start>> /\ phase' = "ended" /\ outcome' # "done"
    BY <1>9 DEF Rejected, AfterFails, node
  <2> QED
    BY <2>1, StillAccomplished DEF Accomplished
<1>10. ASSUME NEW s, Passes(s) PROVE Accomplished'
  <2>1. phase = "forward" /\ phase' = "forward" /\ outcome' = "none"
    BY <1>0, <1>10 DEF Passes, result, Typed, Placed
  <2>2. Established'
    BY <1>10, <2>1, EstablishedStep DEF Accomplished
  <2> QED
    BY <2>1, <2>2 DEF Accomplished, SuccessMeansConfigured
<1>11. ASSUME NEW s, Fails(s) \/ Undoes(s) \/ UndoFails(s) PROVE Accomplished'
  <2>1. phase' = "undo" /\ outcome' = "none"
    BY <1>0, <1>11 DEF Fails, Undoes, UndoFails, result, Typed, Placed
  <2> QED
    BY <2>1 DEF Accomplished, SuccessMeansConfigured
<1>12. ASSUME NEW s, AfterPasses(s) PROVE Accomplished'
  <2>1. /\ phase = "after" /\ todo # << >> /\ s = Head(todo) /\ todo' = Tail(todo) /\ Succeeded(s)
        /\ UNCHANGED <<dev, sameId, flow, start, phase, outcome>>
    BY <1>12 DEF AfterPasses, node, result
  <2>2. /\ todo \in Seq(Item) /\ Rest(todo, After(flow)) /\ base = start
        /\ After(flow) \in Seq(Watching)
    BY <1>0, <2>1, AfterSteps DEF Typed, Placed
  <2>3. /\ Len(todo) \in Nat \ {0} /\ Len(Tail(todo)) = Len(todo) - 1
        /\ Len(After(flow)) \in Nat
        /\ Head(todo) = After(flow)[Len(After(flow)) - Len(todo) + 1]
    BY <2>1, <2>2, RestTail
  <2>4. ASSUME todo' = << >> PROVE Untouched(Saved)
    <3>0. Len(todo') = 0 /\ Len(todo') = Len(todo) - 1
      <4>1. Len(todo') = Len(todo) - 1
        BY <2>1, <2>3
      <4>2. Len(todo') = 0
        BY <2>4
      <4> QED
        BY <4>1, <4>2
    <3>1. Len(todo) = 1
      <4>1. \A n \in Nat : n - 1 = 0 => n = 1
        OBVIOUS
      <4>2. Len(todo) \in Nat
        BY <2>3
      <4> QED
        BY <3>0, <4>1, <4>2
    <3>2. Len(After(flow)) - 1 + 1 = Len(After(flow))
      BY <2>3
    <3>3. s = Do("same")
      BY <2>1, <2>3, <3>1, <3>2, AfterSteps
    <3> QED
      BY <2>1, <2>2, <3>3 DEF Succeeded, Do, Untouched
  <2>5. phase' = "after" /\ todo' = << >> => Untouched(Saved)'
    BY <2>1, <2>4 DEF Untouched
  <2>6. SuccessMeansConfigured'
    BY <2>1, StillAccomplished
  <2> QED
    BY <2>1, <2>5, <2>6 DEF Accomplished
<1> QED
  BY <1>2, <1>3, <1>4, <1>5, <1>6, <1>7, <1>8, <1>9, <1>10, <1>11, <1>12, StepKinds DEF Kinds

\* Whatever the node acknowledges and keeps, and whatever it changes with a
\* field it stores: a flow that reports success has left the node as the flow
\* is for, because the steps it ends with compare the fields that matter.
THEOREM SuccessIsWarranted == Spec => []SuccessMeansConfigured
<1>1. Init => Accomplished
  BY DEF Init, Accomplished, SuccessMeansConfigured
<1>2. Located /\ Accomplished /\ [Next]_vars => Accomplished'
  BY AccomplishedStep
<1>3. Accomplished => SuccessMeansConfigured
  BY DEF Accomplished
<1> QED
  BY <1>1, <1>2, <1>3, LocatedAlways, PTL DEF Spec

-----------------------------------------------------------------------------
(* What a validation writes for a while is written back. *)

\* Until the new value is written the field is as it was; from then on the
\* clause has to write the old value and compare what it reads.
Revertible ==
  \A f \in Temporary(flow) :
    /\ phase = "forward" =>
         IF Len(todo) + 2 >= Len(Forward(flow, start))
         THEN undo = << >> /\ dev[f] = start[f]
         ELSE undo = WriteCompared(f, start[f])
    /\ phase = "undo" =>
         \/ undo = WriteCompared(f, start[f])
         \/ undo = <<Read(f, {start[f]})>>
         \/ undo = << >> /\ (undoFailed \/ dev[f] = start[f])
    /\ phase = "after" => dev[f] = start[f]
    /\ outcome = "failed" /\ ~ undoFailed => dev[f] = start[f]

LEMMA TemporaryFields ==
  ASSUME NEW f \in Temporary(flow)
  PROVE  /\ f \in Saved /\ f \in Field /\ f # "burst"
         /\ (flow = "validate-channels" /\ f = "channels") \/ (flow = "validate-slot" /\ f = "slot")
         /\ flow \in Validations /\ flow # "validate-burst"
BY DEF Temporary, Saved, Field, Validations

\* The present value comes first, the new one third; the others only look.
LEMMA TestingSteps ==
  ASSUME Located, phase = "forward", todo # << >>, NEW f \in Temporary(flow),
         NEW n, n = Len(todo), NEW m, m = Len(Forward(flow, start))
  PROVE  /\ n = m => Head(todo) = Write(f, start[f])
         /\ n + 2 = m => Head(todo) = Undoable(f, "new", WriteCompared(f, start[f]))
         /\ n # m /\ n + 2 # m => Head(todo).do \notin {"write", "reset"}
<1> DEFINE F == Forward(flow, start)
<1>1. m \in Nat /\ n \in 1 .. m /\ Head(todo) = F[m - n + 1]
  BY Ahead
<1>2. start \in Config /\ f \in Field
  BY TemporaryFields DEF Located, Typed
<1>3. F = Validate(f, start) \/ F = Validate(f, start) \o <<Do("listen")>>
  BY TemporaryFields DEF Forward
<1>4. /\ m = 4 \/ (m = 5 /\ F[5] = Do("listen"))
      /\ \A i \in 1 .. 4 : F[i] = Tests(f, start)[i]
  BY <1>2, <1>3, ValidateSteps
<1>5. /\ F[1] = Write(f, start[f]) /\ F[2] = Read(f, {start[f]})
      /\ F[3] = Undoable(f, "new", WriteCompared(f, start[f])) /\ F[4] = Read(f, {"new"})
  <2>1. /\ Tests(f, start)[1] = Write(f, start[f]) /\ Tests(f, start)[2] = Read(f, {start[f]})
        /\ Tests(f, start)[3] = Undoable(f, "new", WriteCompared(f, start[f]))
        /\ Tests(f, start)[4] = Read(f, {"new"})
    BY DEF Tests
  <2>2. \A i \in {1, 2, 3, 4} : F[i] = Tests(f, start)[i]
    BY <1>4
  <2> HIDE DEF F
  <2> QED
    BY <2>1, <2>2
<1> HIDE DEF F
<1>6. n = m => Head(todo) = F[1]
  <2>1. n = m => m - n + 1 = 1
    BY <1>1
  <2> QED
    BY <1>1, <2>1
<1>7. n + 2 = m => Head(todo) = F[3]
  <2>1. n + 2 = m => m - n + 1 = 3
    BY <1>1
  <2> QED
    BY <1>1, <2>1
<1>8. ASSUME n # m, n + 2 # m PROVE Head(todo).do \notin {"write", "reset"}
  <2>0. m \in {4, 5} /\ n \in 1 .. m
    BY <1>1, <1>4
  <2>1. m - n + 1 \in {2, 4, 5} /\ (m - n + 1 = 5 => m = 5)
    BY <1>8, <2>0
  <2>3. \A v : Read(f, v).do = "read" /\ Do("listen").do = "listen"
    BY DEF Read, Do
  <2>4. m = 5 => F[5] = Do("listen")
    <3>1. 4 # 5
      OBVIOUS
    <3> QED
      BY <1>4, <3>1
  <2>2. F[2].do = "read" /\ F[4].do = "read" /\ (m = 5 => F[5].do = "listen")
    BY <1>5, <2>3, <2>4
  <2>5. Head(todo).do \in {"read", "listen"}
    BY <1>1, <2>1, <2>2
  <2> QED
    BY <2>5
<1> QED
  BY <1>5, <1>6, <1>7, <1>8

LEMMA RevertibleStep ==
  ASSUME Located, Revertible, [Next]_vars
  PROVE  Revertible'
<1>0. Typed /\ Placed
  BY DEF Located
<1>1. ASSUME \A f \in Saved : dev'[f] = dev[f],
             UNCHANGED <<flow, start, phase, todo, undo, undoFailed, outcome>>
      PROVE  Revertible'
  BY <1>1, TemporaryFields DEF Revertible
<1>2. CASE UNCHANGED vars
  BY <1>1, <1>2 DEF vars
<1>3. CASE BurstEnds
  <2>1. \A f \in Saved : dev'[f] = dev[f]
    BY <1>0, <1>3 DEF BurstEnds, Saved, Field, Typed, Config
  <2> QED
    BY <1>1, <1>3, <2>1 DEF BurstEnds, result
<1>4. CASE NotBegun
  BY <1>0, <1>4 DEF NotBegun, node, Placed, Revertible
<1>5. CASE Begin
  <2>1. PICK fl \in Offered : flow' = fl /\ todo' = Forward(fl, dev)
    BY <1>5 DEF Begin
  <2>2. /\ dev = start /\ start' = start /\ dev' = dev /\ fl \in Flows /\ start \in Config
        /\ undo' = << >> /\ phase' = "forward" /\ outcome' = "none"
    BY <1>0, <1>5, <2>1, MaintenanceAssumption DEF Begin, node, result, Typed, Placed
  <2>3. todo' = Forward(flow', start') /\ Len(todo') \in Nat
    BY <2>1, <2>2, FlowSteps
  <2>4. Len(todo') + 2 >= Len(Forward(flow', start'))
    BY <2>3
  <2> QED
    BY <2>2, <2>4 DEF Revertible
<1>6. CASE ForwardEnds
  <2>1. /\ phase = "forward" /\ todo = << >> /\ UNCHANGED <<dev, flow, start>>
        /\ \/ phase' = "undo" /\ undo' = undo /\ outcome' = outcome /\ outcome' = "none"
           \/ phase' = "ended" /\ outcome' = "done"
    BY <1>0, <1>6 DEF ForwardEnds, End, node, Placed
  <2> QED
    BY <2>1 DEF Revertible
<1>7. CASE UndoEnds
  <2>1. /\ phase = "undo" /\ undo = << >>
        /\ UNCHANGED <<dev, flow, start, undoFailed>>
        /\ \/ phase' = "ended"
           \/ phase' = "after" /\ ~ undoFailed /\ outcome' = outcome
    BY <1>7 DEF UndoEnds, End, node
  <2>2. ASSUME NEW f \in Temporary(flow) PROVE undoFailed \/ dev[f] = start[f]
    <3>1. WriteCompared(f, start[f]) # << >> /\ <<Read(f, {start[f]})>> # << >>
      BY DEF WriteCompared
    <3> QED
      BY <2>1, <2>2, <3>1 DEF Revertible
  <2>3. outcome = "none"
    BY <1>0, <2>1 DEF Placed
  <2> QED
    BY <2>1, <2>2, <2>3 DEF Revertible
<1>8. CASE AfterEnds \/ AfterFails
  <2>1. phase = "after" /\ phase' = "ended" /\ UNCHANGED <<dev, flow, start, undoFailed>>
    BY <1>8 DEF AfterEnds, AfterFails, End, node
  <2> QED
    BY <2>1 DEF Revertible
<1>9. CASE Rejected
  <2>1. flow' = "validate-burst"
    BY <1>9 DEF Rejected
  <2>2. Temporary(flow') = {}
    BY <2>1 DEF Temporary
  <2> QED
    BY <2>2 DEF Revertible
<1>10. ASSUME NEW s, Passes(s) \/ Fails(s) PROVE Revertible'
  <2>1. /\ phase = "forward" /\ todo # << >> /\ s = Head(todo) /\ Acts(s)
        /\ flow' = flow /\ start' = start /\ outcome' = "none"
    BY <1>0, <1>10 DEF Passes, Fails, result, Placed
  <2> SUFFICES ASSUME NEW f \in Temporary(flow)
               PROVE  /\ phase' = "forward" =>
                           IF Len(todo') + 2 >= Len(Forward(flow, start))
                           THEN undo' = << >> /\ dev'[f] = start[f]
                           ELSE undo' = WriteCompared(f, start[f])
                      /\ phase' = "undo" =>
                           \/ undo' = WriteCompared(f, start[f])
                           \/ undo' = << >> /\ dev'[f] = start[f]
                      /\ phase' # "after"
    BY <1>10, <2>1 DEF Revertible, Passes, Fails
  <2>2. undo' = Noted(s) \o undo
    BY <1>10, TemporaryFields DEF Passes, Fails
  <2>3. (Passes(s) /\ phase' = "forward" /\ todo' = Tail(todo)) \/ phase' = "undo"
    BY <1>10, <2>1 DEF Passes, Fails
  <2> DEFINE n == Len(todo)
             m == Len(Forward(flow, start))
  <2>4. n \in Nat \ {0} /\ m \in Nat /\ n <= m /\ Len(Tail(todo)) = n - 1
    BY <2>1, Ahead
  <2>5. /\ n = m => s = Write(f, start[f])
        /\ n + 2 = m => s = Undoable(f, "new", WriteCompared(f, start[f]))
        /\ n # m /\ n + 2 # m => s.do \notin {"write", "reset"}
    BY <2>1, TestingSteps
  <2>6. IF n + 2 >= m THEN undo = << >> /\ dev[f] = start[f] ELSE undo = WriteCompared(f, start[f])
    BY <2>1 DEF Revertible
  <2>7. phase' = "forward" => Len(todo') = n - 1
    BY <2>3, <2>4
  <2> HIDE DEF n
  <2>8. (phase' = "forward" => Len(todo') = n - 1) => 
          (phase' = "forward" => (Len(todo') + 2 >= m <=> n + 1 >= m))
    BY <2>4
  <2> HIDE DEF m
  <2>9. << >> \o << >> = << >>
    OBVIOUS
  <2>10. f \in Field
    BY TemporaryFields
  <2>11. CASE n = m
    <3>1. s.do = "write" /\ s.field = f /\ s.value = start[f] /\ s.undo = << >>
      BY <2>5, <2>11 DEF Write
    <3>2. undo = << >> /\ dev[f] = start[f] /\ n + 1 >= m
      BY <2>4, <2>6, <2>11
    <3>3. undo' = << >> /\ dev'[f] = start[f]
      BY <2>1, <2>2, <2>9, <3>1, <3>2 DEF Noted, Acts
    <3> QED
      BY <2>3, <2>7, <2>8, <3>2, <3>3 DEF m
  <2>12. CASE n + 2 = m
    <3>1. s.do = "write" /\ s.undo = WriteCompared(f, start[f])
      BY <2>5, <2>12 DEF Undoable
    <3>2. undo = << >> /\ ~ n + 1 >= m
      BY <2>4, <2>6, <2>12
    <3>3. undo' = WriteCompared(f, start[f]) \o << >>
      BY <2>2, <3>1, <3>2 DEF Noted
    <3>4. undo' = WriteCompared(f, start[f])
      <4>1. f \in Field /\ start[f] \in Value
        BY <1>0, <2>10 DEF Typed, Config
      <4>2. WriteCompared(f, start[f]) \in Seq(Undoing)
        BY <4>1, Verified
      <4> QED
        BY <3>3, <4>2, ConcatEmptySeq
    <3> QED
      BY <2>3, <2>7, <2>8, <3>2, <3>4 DEF m
  <2>13. CASE n # m /\ n + 2 # m
    <3>1. s.do \notin {"write", "reset"}
      BY <2>5, <2>13
    <3>2. dev' = dev /\ undo' = << >> \o undo
      BY <2>1, <2>2, <3>1 DEF Acts, Noted
    <3>3. undo' = undo
      BY <1>0, <3>2, ConcatEmptySeq DEF Typed
    <3>4. n + 1 >= m <=> n + 2 >= m
      BY <2>4, <2>13
    <3> QED
      BY <2>3, <2>6, <2>7, <2>8, <3>2, <3>3, <3>4 DEF m
  <2> QED
    BY <2>11, <2>12, <2>13
<1>11. ASSUME NEW s, Undoes(s) \/ UndoFails(s) PROVE Revertible'
  <2>1. /\ phase = "undo" /\ undo # << >> /\ s = Head(undo) /\ phase' = "undo"
        /\ flow' = flow /\ start' = start /\ outcome' = "none"
        /\ \/ undo' = Tail(undo) /\ Acts(s) /\ Succeeded(s)
           \/ undo' = << >> /\ undoFailed'
    BY <1>0, <1>11 DEF Undoes, UndoFails, result, Placed
  <2> SUFFICES ASSUME NEW f \in Temporary(flow), undo' = Tail(undo), Acts(s), Succeeded(s)
               PROVE  \/ undo' = <<Read(f, {start[f]})>>
                      \/ undo' = << >> /\ dev'[f] = start[f]
    BY <2>1 DEF Revertible
  <2>2. undo = WriteCompared(f, start[f]) \/ undo = <<Read(f, {start[f]})>>
    BY <2>1 DEF Revertible
  <2>3. CASE undo = WriteCompared(f, start[f])
    <3>1. Tail(WriteCompared(f, start[f])) = <<Read(f, {start[f]})>>
      BY DEF WriteCompared
    <3> QED
      BY <2>3, <3>1
  <2>4. CASE undo = <<Read(f, {start[f]})>>
    <3>1. Tail(undo) = << >> /\ s = Read(f, {start[f]})
      BY <2>1, <2>4
    <3>2. dev[f] = start[f] /\ dev' = dev
      BY <3>1 DEF Read, Succeeded, Acts
    <3> QED
      BY <3>1, <3>2
  <2> QED
    BY <2>2, <2>3, <2>4
<1>12. ASSUME NEW s, AfterPasses(s) PROVE Revertible'
  BY <1>12 DEF AfterPasses, node, result, Revertible
<1> QED
  BY <1>2, <1>3, <1>4, <1>5, <1>6, <1>7, <1>8, <1>9, <1>10, <1>11, <1>12, StepKinds DEF Kinds

-----------------------------------------------------------------------------
(* What a profile writes is written back. *)

\* The rollback of a field, and of both.
Back(f) == WriteVerified(f, start[f])
Rollback == Back("uplink") \o Back("general")

\* The clause is the rollback of the fields that the profile has begun, and
\* the steps left of it tell which fields are as they were.
RolledBack ==
  flow = "profile" /\ Uncoupled =>
    /\ phase = "forward" =>
         /\ Len(todo) <= 6
         /\ Len(todo) = 6 => undo = << >>
         /\ Len(todo) \in {4, 5} => undo = Back("general")
         /\ Len(todo) >= 4 => dev["uplink"] = start["uplink"]
         /\ Len(todo) <= 3 => undo = Rollback
    /\ phase = "undo" =>
         /\ Rest(undo, Rollback)
         /\ ~ undoFailed /\ ~ lied =>
              /\ Len(undo) <= 3 => dev["uplink"] = start["uplink"]
              /\ Len(undo) <= 1 => dev["general"] = start["general"]
    /\ outcome = "failed" /\ ~ undoFailed /\ ~ lied => Untouched({"general", "uplink"})

LEMMA RollbackSteps ==
  ASSUME start \in Config
  PROVE  /\ Back("general") \in Seq(Undoing) /\ Len(Back("general")) = 2
         /\ Back("uplink") \in Seq(Undoing)
         /\ Rollback \in Seq(Undoing) /\ Len(Rollback) = 4
         /\ Rollback[1] = Write("uplink", start["uplink"]) /\ Rollback[2] = Read("uplink", Value)
         /\ Rollback[3] = Write("general", start["general"])
         /\ Rollback[4] = Read("general", Value)
         /\ Rest(Back("general"), Rollback) /\ Rest(Rollback, Rollback)
<1> DEFINE u == Back("uplink")
           g == Back("general")
           all == u \o g
<1>1. start["uplink"] \in Value /\ start["general"] \in Value /\ {"uplink", "general"} \subseteq Field
  BY DEF Config, Field
<1>2. /\ u \in Seq(Undoing) /\ Len(u) = 2 /\ g \in Seq(Undoing) /\ Len(g) = 2
      /\ u[1] = Write("uplink", start["uplink"]) /\ u[2] = Read("uplink", Value)
      /\ g[1] = Write("general", start["general"]) /\ g[2] = Read("general", Value)
  BY <1>1, Verified DEF Back
<1> HIDE DEF u, g
<1>3. Joint(Undoing, u, g, all, 2, 2)
  BY <1>2, Joined
<1>4. Rollback = all
  BY DEF Rollback, u, g
<1> HIDE DEF all
<1>5. /\ all \in Seq(Undoing) /\ Len(all) = 4
      /\ all[1] = u[1] /\ all[2] = u[2] /\ all[2 + 1] = g[1] /\ all[2 + 2] = g[2]
  BY <1>3 DEF Joint
<1>6. \A i \in 1 .. 2 : g[i] = all[4 - 2 + i]
  BY <1>3 DEF Joint
<1>7. Rest(g, all)
  BY <1>2, <1>5, <1>6 DEF Rest
<1>8. Rest(all, all)
  BY <1>5, RestAll
<1> QED
  BY <1>2, <1>4, <1>5, <1>7, <1>8 DEF u, g

\* A profile notes a field with the write of it, and only its first and third
\* steps write.
LEMMA ProfileHead ==
  ASSUME Located, phase = "forward", todo # << >>, flow = "profile",
         NEW n, n = Len(todo)
  PROVE  /\ n \in 1 .. 6 /\ Len(Tail(todo)) = n - 1
         /\ n = 6 => Head(todo) = Undoable("general", "new", Back("general"))
         /\ n = 4 => Head(todo) = Undoable("uplink", "new", Back("uplink"))
         /\ n \in {1, 2, 3, 5} => Head(todo).do \notin {"write", "reset"}
<1> DEFINE F == Forward(flow, start)
<1>1. n \in 1 .. Len(F) /\ Head(todo) = F[Len(F) - n + 1] /\ Len(Tail(todo)) = n - 1
  BY Ahead
<1>2. start \in Config
  BY DEF Located, Typed
<1>3. F = Profile(start)
  BY DEF Forward
<1>4. /\ Len(F) = 6
      /\ F[1] = Undoable("general", "new", Back("general"))
      /\ F[2] = Read("general", Value)
      /\ F[3] = Undoable("uplink", "new", Back("uplink"))
      /\ F[4] = Read("uplink", Value)
      /\ F[5] = Match([f \in {"general", "uplink"} |-> "new"])
      /\ F[6] = Match([f \in PreservedFields |-> start[f]])
  BY <1>2, <1>3, ProfileSteps DEF Back
<1> HIDE DEF F
<1>5. n \in 1 .. 6 /\ Head(todo) = F[6 - n + 1]
  BY <1>1, <1>4
<1>6. (\A f, v : Read(f, v).do = "read") /\ \A want : Match(want).do = "match"
  BY DEF Read, Match
<1>7. F[2].do \in {"read", "match"} /\ F[4].do \in {"read", "match"}
      /\ F[5].do \in {"read", "match"} /\ F[6].do \in {"read", "match"}
  BY <1>4, <1>6
<1>8. \A k \in 1 .. 6 : /\ k = 6 => 6 - k + 1 = 1
                        /\ k = 4 => 6 - k + 1 = 3
                        /\ k \in {1, 2, 3, 5} => 6 - k + 1 \in {2, 4, 5, 6}
  OBVIOUS
<1>9. n \in {1, 2, 3, 5} => Head(todo).do \in {"read", "match"}
  BY <1>5, <1>7, <1>8
<1> QED
  BY <1>1, <1>4, <1>5, <1>8, <1>9

\* The rollback as it goes on: each write of it that is stored restores its
\* field and, uncoupled, leaves the other alone.
LEMMA RollbackGoesOn ==
  ASSUME Located, RolledBack, flow = "profile", Uncoupled, phase = "undo", undo # << >>,
         NEW s, s = Head(undo), Acts(s), Succeeded(s), ~ undoFailed, ~ lied'
  PROVE  /\ Len(Tail(undo)) <= 3 => dev'["uplink"] = start["uplink"]
         /\ Len(Tail(undo)) <= 1 => dev'["general"] = start["general"]
<1> DEFINE k == Len(undo)
<1>1. start \in Config /\ undo \in Seq(Undoing) /\ lied \in BOOLEAN
  BY DEF Located, Typed
<1>2. Rest(undo, Rollback) /\ ~ lied
      /\ (k <= 3 => dev["uplink"] = start["uplink"])
      /\ (k <= 1 => dev["general"] = start["general"])
  BY <1>1 DEF RolledBack, Acts
<1>3. k \in 1 .. 4 /\ Len(Tail(undo)) = k - 1 /\ s = Rollback[4 - k + 1]
  <2>1. Rollback \in Seq(Undoing) /\ Len(Rollback) = 4
    BY <1>1, RollbackSteps
  <2>2. /\ Len(undo) \in 1 .. Len(Rollback) /\ Len(Tail(undo)) = Len(undo) - 1
        /\ Head(undo) = Rollback[Len(Rollback) - Len(undo) + 1]
    BY <1>1, <1>2, <2>1, RestTail
  <2> QED
    BY <2>1, <2>2
<1> HIDE DEF k
<1>4. \A i \in 1 .. 4 : (i = 4 => 4 - i + 1 = 1) /\ (i = 3 => 4 - i + 1 = 2)
                        /\ (i = 2 => 4 - i + 1 = 3) /\ (i = 1 => 4 - i + 1 = 4)
  OBVIOUS
<1>5. \A i \in 1 .. 4 : /\ (i - 1 <= 3) /\ (i - 1 <= 1 => i \in {1, 2}) /\ (i <= 3 <=> i # 4)
                        /\ i \in {1, 2, 3, 4}
  OBVIOUS
<1>6. "uplink" \in Field /\ "general" \in Field /\ "uplink" # "general"
  BY DEF Field
<1>7. CASE k = 4
  <2>1. s = Write("uplink", start["uplink"])
    BY <1>1, <1>3, <1>4, <1>7, RollbackSteps
  <2>2. s.do = "write" /\ s.field = "uplink" /\ s.value = start["uplink"]
    BY <2>1 DEF Write
  <2>3. dev'["uplink"] = start["uplink"]
    BY <2>2 DEF Succeeded
  <2>4. ~ Len(Tail(undo)) <= 1
    BY <1>3, <1>7
  <2> QED
    BY <2>3, <2>4
<1>8. CASE k = 2
  <2>1. s = Write("general", start["general"])
    BY <1>1, <1>3, <1>4, <1>8, RollbackSteps
  <2>2. s.do = "write" /\ s.field = "general" /\ s.value = start["general"]
    BY <2>1 DEF Write
  <2>3. dev'["general"] = start["general"]
    BY <2>2 DEF Succeeded
  <2>4. dev'["uplink"] = dev["uplink"]
    BY <1>6, <2>2 DEF Acts, Uncoupled
  <2>5. dev["uplink"] = start["uplink"]
    BY <1>2, <1>3, <1>5, <1>8
  <2> QED
    BY <2>3, <2>4, <2>5
<1>9. CASE k = 1 \/ k = 3
  <2>1. s = Read("uplink", Value) \/ s = Read("general", Value)
    BY <1>1, <1>3, <1>4, <1>9, RollbackSteps
  <2>2. s.do = "read"
    BY <2>1 DEF Read
  <2>3. dev' = dev
    BY <2>2 DEF Acts
  <2>4. dev["uplink"] = start["uplink"]
    BY <1>2, <1>3, <1>5, <1>9
  <2>5. k = 1 => dev["general"] = start["general"]
    <3>1. 1 <= 1
      OBVIOUS
    <3> QED
      BY <1>2, <3>1
  <2>6. k = 3 => ~ Len(Tail(undo)) <= 1
    <3>1. ~ 3 - 1 <= 1
      OBVIOUS
    <3> QED
      BY <1>3, <3>1
  <2> QED
    BY <1>9, <2>3, <2>4, <2>5, <2>6
<1> QED
  BY <1>3, <1>5, <1>7, <1>8, <1>9

LEMMA RolledBackStep ==
  ASSUME Located, RolledBack, [Next]_vars
  PROVE  RolledBack'
<1>0. Typed /\ Placed
  BY DEF Located
<1>1. ASSUME \A f \in Saved : dev'[f] = dev[f],
             UNCHANGED <<flow, start, phase, todo, undo, undoFailed, outcome, lied>>
      PROVE  RolledBack'
  <2>1. {"general", "uplink"} \subseteq Saved
    BY DEF Saved, Field
  <2>2. Rollback' = Rollback /\ Back("general")' = Back("general")
    BY <1>1 DEF Rollback, Back
  <2> QED
    BY <1>1, <2>1, <2>2 DEF RolledBack, Untouched
<1>2. CASE UNCHANGED vars
  BY <1>1, <1>2 DEF vars
<1>3. CASE BurstEnds
  <2>1. \A f \in Saved : dev'[f] = dev[f]
    BY <1>0, <1>3 DEF BurstEnds, Saved, Field, Typed, Config
  <2> QED
    BY <1>1, <1>3, <2>1 DEF BurstEnds, result
<1>4. CASE NotBegun
  BY <1>0, <1>4 DEF NotBegun, RolledBack
<1>5. CASE Begin
  <2>1. PICK fl \in Offered : flow' = fl /\ todo' = Forward(fl, dev)
    BY <1>5 DEF Begin
  <2>2. /\ dev = start /\ start' = start /\ dev' = dev /\ start \in Config
        /\ undo' = << >> /\ phase' = "forward" /\ outcome' = "none"
    BY <1>0, <1>5 DEF Begin, node, result, Typed, Placed
  <2>3. fl = "profile" => Len(todo') = 6
    BY <2>1, <2>2, ProfileSteps DEF Forward
  <2>4. 6 <= 6 /\ 6 \notin {4, 5} /\ ~ 6 <= 3
    OBVIOUS
  <2> QED
    BY <2>1, <2>2, <2>3, <2>4 DEF RolledBack
<1>6. CASE ForwardEnds
  <2>1. (flow' = "profile" => phase' = "ended") /\ outcome' # "failed"
    BY <1>0, <1>6 DEF ForwardEnds, End, Validations, Placed
  <2> QED
    BY <2>1 DEF RolledBack
<1>7. CASE UndoEnds
  <2>1. /\ phase = "undo" /\ undo = << >> /\ UNCHANGED <<dev, flow, start, undoFailed, lied>>
        /\ phase' \in {"ended", "after"}
    BY <1>7 DEF UndoEnds, End, node
  <2>2. Len(undo) <= 3 /\ Len(undo) <= 1
    BY <2>1
  <2> QED
    BY <2>1, <2>2 DEF RolledBack, Untouched
<1>8. CASE AfterEnds \/ AfterFails \/ Rejected
  <2>1. flow' # "profile"
    BY <1>0, <1>8 DEF AfterEnds, AfterFails, Rejected, Placed, Validations
  <2> QED
    BY <2>1 DEF RolledBack
<1>9. ASSUME NEW s, Passes(s) \/ Fails(s) PROVE RolledBack'
  <2>1. /\ phase = "forward" /\ todo # << >> /\ s = Head(todo) /\ Acts(s)
        /\ flow' = flow /\ start' = start /\ outcome' = "none"
        /\ (phase' = "forward" /\ todo' = Tail(todo)) \/ phase' = "undo"
    BY <1>0, <1>9 DEF Passes, Fails, result, Placed
  <2>2. Rollback' = Rollback /\ Back("general")' = Back("general")
    BY <2>1 DEF Rollback, Back
  <2> SUFFICES ASSUME flow = "profile", Uncoupled
               PROVE  /\ phase' = "forward" =>
                           /\ Len(todo') <= 6 /\ Len(todo') # 6
                           /\ Len(todo') \in {4, 5} => undo' = Back("general")
                           /\ Len(todo') >= 4 => dev'["uplink"] = start["uplink"]
                           /\ Len(todo') <= 3 => undo' = Rollback
                      /\ phase' = "undo" =>
                           \/ undo' = Back("general") /\ dev'["uplink"] = start["uplink"]
                           \/ undo' = Rollback
    <3>1. start \in Config
      BY <1>0 DEF Typed
    <3>2. /\ Len(Back("general")) = 2 /\ Len(Rollback) = 4
          /\ Rest(Back("general"), Rollback) /\ Rest(Rollback, Rollback)
      BY <3>1, RollbackSteps
    <3>3. ~ 2 <= 1 /\ ~ 4 <= 1 /\ ~ 4 <= 3
      OBVIOUS
    <3> QED
      BY <2>1, <2>2, <3>2, <3>3 DEF RolledBack
  <2>3. undo' = Noted(s) \o undo
    BY <1>9 DEF Passes, Fails
  <2> DEFINE n == Len(todo)
  <2>4. /\ n \in 1 .. 6 /\ Len(Tail(todo)) = n - 1
        /\ n = 6 => s = Undoable("general", "new", Back("general"))
        /\ n = 4 => s = Undoable("uplink", "new", Back("uplink"))
        /\ n \in {1, 2, 3, 5} => s.do \notin {"write", "reset"}
    BY <2>1, ProfileHead
  <2>5. /\ n = 6 => undo = << >>
        /\ n \in {4, 5} => undo = Back("general")
        /\ n >= 4 => dev["uplink"] = start["uplink"]
        /\ n <= 3 => undo = Rollback
    BY <2>1 DEF RolledBack
  <2>6. phase' = "forward" => Len(todo') = n - 1
    BY <2>1, <2>4
  <2> HIDE DEF n
  <2>7. \A k \in 1 .. 6 : /\ k \in {1, 2, 3, 4, 5, 6} /\ k - 1 <= 6 /\ k - 1 # 6
                          /\ k - 1 \in {4, 5} <=> k \in {5, 6}
                          /\ k - 1 >= 4 <=> k \in {5, 6}
                          /\ k - 1 <= 3 <=> k \in {1, 2, 3, 4}
                          /\ k <= 3 <=> k \in {1, 2, 3}
                          /\ k >= 4 <=> k \in {4, 5, 6}
    OBVIOUS
  <2>13. phase' = "forward" =>
           /\ Len(todo') <= 6 /\ Len(todo') # 6
           /\ Len(todo') \in {4, 5} <=> n \in {5, 6}
           /\ Len(todo') >= 4 <=> n \in {5, 6}
           /\ Len(todo') <= 3 <=> n \in {1, 2, 3, 4}
    <3>1. n \in 1 .. 6
      BY <2>4
    <3> DEFINE k == Len(todo')
    <3>2. phase' = "forward" => k = n - 1
      BY <2>6
    <3> HIDE DEF k
    <3>3. phase' = "forward" =>
            /\ k <= 6 /\ k # 6
            /\ k \in {4, 5} <=> n \in {5, 6}
            /\ k >= 4 <=> n \in {5, 6}
            /\ k <= 3 <=> n \in {1, 2, 3, 4}
      BY <2>7, <3>1, <3>2
    <3> QED
      BY <3>3 DEF k
  <2>8. "uplink" \in Field /\ "general" \in Field /\ "uplink" # "general"
    BY DEF Field
  <2>9. start \in Config /\ undo \in Seq(Undoing)
    BY <1>0 DEF Typed
  <2>10. CASE n = 6
    <3>1. s.do = "write" /\ s.field = "general" /\ s.undo = Back("general")
      BY <2>4, <2>10 DEF Undoable
    <3>2. undo' = Back("general") \o << >>
      BY <2>3, <2>5, <2>10, <3>1 DEF Noted
    <3>3. undo' = Back("general")
      BY <2>9, <3>2, RollbackSteps, ConcatEmptySeq
    <3>4. dev'["uplink"] = dev["uplink"]
      BY <2>1, <2>8, <3>1 DEF Acts, Uncoupled
    <3>5. dev'["uplink"] = start["uplink"]
      BY <2>4, <2>5, <2>7, <2>10, <3>4
    <3> QED
      BY <2>1, <2>10, <2>13, <3>3, <3>5
  <2>11. CASE n = 4
    <3>1. s.do = "write" /\ s.undo = Back("uplink")
      BY <2>4, <2>11 DEF Undoable
    <3>2. undo' = Rollback
      BY <2>3, <2>5, <2>11, <3>1 DEF Noted, Rollback
    <3> QED
      BY <2>1, <2>11, <2>13, <3>2
  <2>12. CASE n \in {1, 2, 3, 5}
    <3>1. s.do \notin {"write", "reset"}
      BY <2>4, <2>12
    <3>2. dev' = dev /\ undo' = << >> \o undo
      BY <2>1, <2>3, <3>1 DEF Acts, Noted
    <3>3. undo' = undo
      BY <2>9, <3>2, ConcatEmptySeq
    <3>4. CASE n = 5
      <4>1. undo = Back("general") /\ dev["uplink"] = start["uplink"]
        BY <2>4, <2>5, <2>7, <3>4
      <4> QED
        BY <2>1, <2>13, <3>2, <3>3, <3>4, <4>1
    <3>5. CASE n \in {1, 2, 3}
      <4>1. undo = Rollback
        BY <2>4, <2>5, <2>7, <3>5
      <4> QED
        BY <2>1, <2>13, <3>3, <3>5, <4>1
    <3> QED
      BY <2>12, <3>4, <3>5
  <2> QED
    BY <2>4, <2>7, <2>10, <2>11, <2>12
<1>10. ASSUME NEW s, Undoes(s) PROVE RolledBack'
  <2>1. /\ phase = "undo" /\ undo # << >> /\ s = Head(undo) /\ Acts(s) /\ Succeeded(s)
        /\ undo' = Tail(undo)
        /\ UNCHANGED <<flow, phase, undoFailed, start>> /\ outcome' = "none"
    BY <1>0, <1>10 DEF Undoes, result, Placed
  <2>2. Rollback' = Rollback
    BY <2>1 DEF Rollback, Back
  <2>3. ASSUME flow = "profile", Uncoupled PROVE Rest(undo', Rollback)
    <3>1. start \in Config /\ undo \in Seq(Undoing) /\ Rest(undo, Rollback)
      BY <1>0, <2>1, <2>3 DEF Typed, RolledBack
    <3> QED
      BY <2>1, <3>1, RollbackSteps, RestTail
  <2>4. ASSUME flow = "profile", Uncoupled, ~ undoFailed, ~ lied'
        PROVE  /\ Len(undo') <= 3 => dev'["uplink"] = start["uplink"]
               /\ Len(undo') <= 1 => dev'["general"] = start["general"]
    BY <2>1, <2>4, RollbackGoesOn
  <2> QED
    BY <2>1, <2>2, <2>3, <2>4 DEF RolledBack
<1>11. ASSUME NEW s, UndoFails(s) PROVE RolledBack'
  <2>1. /\ phase' = "undo" /\ undo' = << >> /\ undoFailed' /\ outcome' = "none" /\ start' = start
    BY <1>0, <1>11 DEF UndoFails, Placed
  <2>2. Rollback' = Rollback
    BY <2>1 DEF Rollback, Back
  <2>3. Rest(<< >>, Rollback)
    <3>0. start \in Config
      BY <1>0 DEF Typed
    <3>1. Len(Rollback) = 4
      BY <3>0, RollbackSteps
    <3> QED
      BY <3>1 DEF Rest
  <2> QED
    BY <2>1, <2>2, <2>3 DEF RolledBack
<1>12. ASSUME NEW s, AfterPasses(s) PROVE RolledBack'
  <2>1. flow' # "profile"
    BY <1>0, <1>12 DEF AfterPasses, Placed, Validations
  <2> QED
    BY <2>1 DEF RolledBack
<1> QED
  BY <1>2, <1>3, <1>4, <1>5, <1>6, <1>7, <1>8, <1>9, <1>10, <1>11, <1>12, StepKinds DEF Kinds

\* Whatever raises, also a write whose acknowledgement was lost: a flow that
\* fails with no error of its clause has undone what it wrote.  A validation
\* compares what it reads back; the rollback of a profile does not, and is
\* worth what the node acknowledges and as much as its fields are uncoupled.
THEOREM FailuresAreUndone == Spec => []FailureIsUndone
<1>1. Init => Revertible /\ RolledBack
  BY DEF Init, Revertible, RolledBack, Temporary
<1>2. Located /\ Revertible /\ [Next]_vars => Revertible'
  BY RevertibleStep
<1>3. Located /\ RolledBack /\ [Next]_vars => RolledBack'
  BY RolledBackStep
<1>4. Revertible /\ RolledBack => FailureIsUndone
  BY DEF Revertible, RolledBack, FailureIsUndone, Untouched
<1> QED
  BY <1>1, <1>2, <1>3, <1>4, LocatedAlways, PTL DEF Spec
===============================================================================
