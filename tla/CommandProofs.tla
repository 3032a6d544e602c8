--------------------------- MODULE CommandProofs ---------------------------
(***************************************************************************)
(* Proofs about the way of a command (CommandPath).                        *)
(*                                                                         *)
(* OutcomesAreReal: what is recorded as done or failed is what the device  *)
(* has answered.  Its invariant follows the answer: from the socket through *)
(* the ingress stream of the collector and the results to the row.         *)
(*                                                                         *)
(* CommandsAreSafe: WriteInv says where a command is between its           *)
(* reservation and the end of its packet, which is why only a failed       *)
(* acknowledgement has it written again.  CalmInv says what holds as long  *)
(* as no store has failed: an entry is read once, so that a command is     *)
(* reserved once, and what is rejected is out of every queue (Spared).     *)
(*                                                                         *)
(* SettledStays: a property of single steps.                               *)
(***************************************************************************)
EXTENDS CommandPath, SequenceTheorems, TLAPS

USE PathConstants

Items(s) == {s[i] : i \in 1 .. Len(s)}
NoTwice(s) == \A i, j \in 1 .. Len(s) : s[i] = s[j] => i = j

Success == {"SUCCEEDED", "FAILED"}

-----------------------------------------------------------------------------
(* The inductive invariant                                                 *)

\* What the device has answered, all along its way to the row.
AnswerInv ==
  /\ OutcomeIsReal
  /\ \A c \in Command : \A v \in Success :
       <<c, v>> \in results => answered[c] = v
  /\ \A e \in Items(ingress) :
       e.kind = "reply" => /\ e.command \in Command /\ e.verdict \in Success
                           /\ answered[e.command] = e.verdict

\* A command that has not been reserved is nowhere beyond the command stream, one
\* that is about to be sent has no packet, and a packet has not been written, or
\* its acknowledgement has failed.
WriteInv ==
  /\ RewritesAreFaults
  /\ NoTwice(egress) /\ delivered \subseteq Items(egress)
  /\ Items(ready) \subseteq delivered /\ writing \notin Items(ready)
  /\ writing # "none" => writing \in delivered
  /\ \A c \in Command :
       /\ writing = c \/ sent[c] > 0 => session[c] # 0
       /\ c \notin reserved => sent[c] = 0 /\ c \notin Items(egress) /\ current # c
       /\ current = c => sent[c] = 0 /\ c \notin Items(egress)
       /\ c \in Items(egress) /\ ~(writing = c /\ written) => sent[c] <= unacked

\* c has not been written and is out of every queue.
Spared(c) ==
  /\ sent[c] = 0 /\ c \notin Items(egress) /\ current # c
  /\ \/ entry[c] \in {"gone", "orphan"}
     \/ entry[c] = "none" /\ dispatch[c] # "enqueue" /\ status[c] = "REJECTED"

\* What CalmInv says of a command as long as no store has failed.
CalmOf(c) ==
  /\ c \in batch => entry[c] = "pending" /\ c \notin reserved
  /\ current = c => entry[c] = "pending" /\ c \notin pending
  /\ c \in reserved => entry[c] \notin {"none", "queued"}
  /\ dispatch[c] \in {"enqueue", "full"} => entry[c] = "none" /\ claimed[c]
  /\ c \in pending => c \in reserved /\ entry[c] = "pending"
  /\ ~claimed[c] => entry[c] = "none" /\ dispatch[c] = "none"
  /\ status[c] \in {"none", "ACCEPTED"} => ~claimed[c]
  /\ status[c] = "REJECTED" => Spared(c)
  /\ <<c, "REJECTED">> \in results => Spared(c) /\ entry[c] = "gone"

CalmInv ==
  faults = 0 =>
    /\ recovering => Worker!Claimed = {}
    /\ current \notin batch
    /\ \A c \in Command : CalmOf(c)

CommandInv == TypeOK /\ AnswerInv /\ WriteInv /\ CalmInv

-----------------------------------------------------------------------------
(* Sequences                                                               *)

\* The empty sequence has no items.
LEMMA NoItems ==
  /\ Items(<<>>) = {} /\ NoTwice(<<>>)
  /\ <<>> \in Seq(Command) /\ <<>> \in Seq(Worker!Events)
BY DEF Items, NoTwice

\* What is appended becomes an item.
LEMMA Appended ==
  ASSUME NEW S, NEW s \in Seq(S), NEW x \in S
  PROVE  /\ Append(s, x) \in Seq(S) /\ Items(Append(s, x)) = Items(s) \cup {x}
         /\ NoTwice(s) /\ x \notin Items(s) => NoTwice(Append(s, x))
<1>1. /\ Append(s, x) \in Seq(S) /\ Len(Append(s, x)) = Len(s) + 1
      /\ Append(s, x)[Len(s) + 1] = x
      /\ \A i \in 1 .. Len(s) : Append(s, x)[i] = s[i]
  OBVIOUS
<1> DEFINE t == Append(s, x)
<1> HIDE DEF t
<1>2. Len(t) = Len(s) + 1 /\ t[Len(s) + 1] = x
      /\ (\A i \in 1 .. Len(s) : t[i] = s[i]) /\ Len(s) \in Nat
  BY <1>1 DEF t
<1>3. Items(t) = Items(s) \cup {x}
  BY <1>2 DEF Items
<1>4. NoTwice(s) /\ x \notin Items(s) => NoTwice(t)
  BY <1>2 DEF Items, NoTwice
<1> QED BY <1>1, <1>3, <1>4 DEF t

\* The head of a sequence is one of its items, and so are those of its tail.
LEMMA HeadAndTail ==
  ASSUME NEW S, NEW s \in Seq(S), s # <<>>
  PROVE  /\ Head(s) \in S /\ Head(s) \in Items(s)
         /\ Tail(s) \in Seq(S) /\ Items(Tail(s)) \subseteq Items(s)
<1>1. /\ Head(s) = s[1] /\ Len(s) \in Nat /\ Len(s) > 0 /\ Tail(s) \in Seq(S)
      /\ Len(Tail(s)) = Len(s) - 1 /\ \A i \in 1 .. Len(Tail(s)) : Tail(s)[i] = s[i + 1]
      /\ s[1] \in S
  OBVIOUS
<1> DEFINE t == Tail(s)
<1> HIDE DEF t
<1>2. Len(t) = Len(s) - 1 /\ \A i \in 1 .. Len(t) : t[i] = s[i + 1]
  BY <1>1 DEF t
<1>3. Items(t) \subseteq Items(s) /\ s[1] \in Items(s)
  BY <1>1, <1>2 DEF Items
<1> QED BY <1>1, <1>3 DEF t

\* Without its i-th element a sequence has its other items.
LEMMA Removed ==
  ASSUME NEW S, NEW s \in Seq(S), NEW i \in 1 .. Len(s)
  PROVE  /\ Worker!RemoveAt(s, i) \in Seq(S)
         /\ Items(Worker!RemoveAt(s, i)) \subseteq Items(s)
         /\ Items(s) \ {s[i]} \subseteq Items(Worker!RemoveAt(s, i))
         /\ NoTwice(s) => /\ NoTwice(Worker!RemoveAt(s, i))
                          /\ s[i] \notin Items(Worker!RemoveAt(s, i))
<1> DEFINE t == Worker!RemoveAt(s, i)
<1>1. t = SubSeq(s, 1, i - 1) \o SubSeq(s, i + 1, Len(s))
  BY DEF Worker!RemoveAt
<1>2. /\ SubSeq(s, 1, i - 1) \in Seq(S) /\ Len(SubSeq(s, 1, i - 1)) = i - 1
      /\ \A j \in 1 .. i - 1 : SubSeq(s, 1, i - 1)[j] = s[j]
  OBVIOUS
<1>3. /\ SubSeq(s, i + 1, Len(s)) \in Seq(S)
      /\ Len(SubSeq(s, i + 1, Len(s))) = Len(s) - i
      /\ \A j \in 1 .. Len(s) - i : SubSeq(s, i + 1, Len(s))[j] = s[i + j]
  OBVIOUS
<1> DEFINE a == SubSeq(s, 1, i - 1)
           b == SubSeq(s, i + 1, Len(s))
<1>4. t = a \o b /\ a \in Seq(S) /\ b \in Seq(S) /\ Len(a) = i - 1 /\ Len(b) = Len(s) - i
      /\ (\A j \in 1 .. i - 1 : a[j] = s[j]) /\ (\A j \in 1 .. Len(s) - i : b[j] = s[i + j])
  BY <1>1, <1>2, <1>3
<1> HIDE DEF a, b, t
<1>5. t \in Seq(S) /\ Len(t) = Len(s) - 1
  BY <1>4
<1>6. \A j \in 1 .. i - 1 : t[j] = s[j]
  BY <1>4
<1>7. \A j \in i .. Len(s) - 1 : t[j] = s[j + 1]
  BY <1>4
<1> DEFINE place(j) == IF j < i THEN j ELSE j + 1
<1>8. ASSUME NEW j \in 1 .. Len(t)
      PROVE  t[j] = s[place(j)] /\ place(j) \in 1 .. Len(s) /\ place(j) # i
  BY <1>5, <1>6, <1>7
<1>9. Items(t) \subseteq Items(s)
  <2> SUFFICES ASSUME NEW j \in 1 .. Len(t) PROVE t[j] \in Items(s)
    BY DEF Items
  <2> HIDE DEF place
  <2> QED BY <1>8, Zenon DEF Items
<1>10. Items(s) \ {s[i]} \subseteq Items(t)
  <2> SUFFICES ASSUME NEW j \in 1 .. Len(s), s[j] # s[i] PROVE s[j] \in Items(t)
    BY DEF Items
  <2>1. CASE j < i
    BY <1>5, <1>6, <2>1 DEF Items
  <2>2. CASE j > i
    <3>1. j - 1 \in i .. Len(s) - 1 /\ t[j - 1] = s[j]
      BY <1>7, <2>2
    <3> QED BY <1>5, <3>1 DEF Items
  <2> QED BY <2>1, <2>2
<1>11. NoTwice(s) => NoTwice(t) /\ s[i] \notin Items(t)
  <2> SUFFICES ASSUME NoTwice(s) PROVE NoTwice(t) /\ s[i] \notin Items(t)
    OBVIOUS
  <2>1. ASSUME NEW j \in 1 .. Len(t), NEW k \in 1 .. Len(t), t[j] = t[k] PROVE j = k
    <3>1. place(j) = place(k)
      <4> HIDE DEF place
      <4> QED BY <1>8, <2>1, Zenon DEF NoTwice
    <3> QED BY <3>1
  <2>2. ASSUME NEW j \in 1 .. Len(t) PROVE t[j] # s[i]
    <3> HIDE DEF place
    <3> QED BY <1>8, Zenon DEF NoTwice
  <2> QED BY ONLY <2>1, <2>2, Zenon DEF Items, NoTwice
<1> QED BY <1>5, <1>9, <1>10, <1>11 DEF t

-----------------------------------------------------------------------------
(* Types                                                                   *)

\* The actions of the service keep the types.
LEMMA ServiceTypes ==
  ASSUME TypeOK, NEW c \in Command, Submit(c) \/ ServiceStep(c)
  PROVE  TypeOK'
<1> USE DEF TypeOK, Service!ServiceTypeOK, Service!Open, Service!Terminal
<1>1. UNCHANGED workerVars => Worker!CollectorTypeOK'
  BY SMTT(40) DEF workerVars, Worker!CollectorTypeOK, Worker!Events
<1>2. CASE Submit(c)
  <2>1. PICK s \in 1 .. opened : Service!Submit(c, s)
    BY <1>2 DEF Submit
  <2>2. s \in 0 .. MaxSession
    BY DEF Worker!CollectorTypeOK
  <2>3. UNCHANGED workerVars
    BY <1>2 DEF Submit
  <2> QED BY <1>1, <2>1, <2>2, <2>3 DEF Service!Submit, Service!linkVars
<1>3. CASE Service!Deadline(c) /\ UNCHANGED workerVars
  BY <1>1, <1>3 DEF Service!Deadline, Service!linkVars
<1>4. CASE Service!Claim(c) /\ UNCHANGED workerVars
  BY <1>1, <1>4 DEF Service!Claim, Service!linkVars, Service!Fault,
     Service!NoFault
<1>5. CASE Service!Enqueue(c) /\ UNCHANGED workerVars
  BY <1>1, <1>5 DEF Service!Enqueue, Service!Push, Service!Fault,
     Service!NoFault
<1>6. CASE Service!RecordOutcome(c) /\ UNCHANGED workerVars
  BY <1>1, <1>6 DEF Service!RecordOutcome, Service!linkVars, Service!Record,
     Service!NextStatus, Service!Fault, Service!NoFault
<1>7. CASE Service!Expire(c) /\ UNCHANGED workerVars
  BY <1>1, <1>7 DEF Service!Expire, Service!linkVars, Service!ExpiredState
<1>8. ASSUME NEW v \in Service!Terminal, Service!Project(c, v) /\ UNCHANGED workerVars
      PROVE  TypeOK'
  BY <1>1, <1>8 DEF Service!Project, Service!Fault, Service!NoFault
<1> QED BY <1>2, <1>3, <1>4, <1>5, <1>6, <1>7, <1>8 DEF ServiceStep,
           Service!ServiceStep

\* The types of the collector in groups that change together.
LinkTypes ==
  /\ entry \in [Command -> {"none", "queued", "pending", "gone", "orphan"}]
  /\ lost \in 0 .. MaxSession
  /\ results \subseteq Command \X Service!Terminal
  /\ faults \in 0 .. MaxFaults
DeviceTypes ==
  /\ live \in 0 .. MaxSession /\ opened \in 0 .. MaxSession
  /\ sent \in [Command -> Nat]
  /\ answered \in [Command -> {"none", "SUCCEEDED", "FAILED"}]
StreamTypes == ingress \in Seq(Worker!Events) /\ known \subseteq 1 .. MaxSession
PacketTypes ==
  /\ egress \in Seq(Command) /\ delivered \subseteq Command /\ ready \in Seq(Command)
  /\ writing \in Command \cup {"none"} /\ written \in BOOLEAN
  /\ (written => writing # "none")
  /\ unacked \in Nat
TickTypes ==
  /\ batch \subseteq Command /\ current \in Command \cup {"none"}
  /\ reserved \subseteq Command /\ pending \subseteq Command
  /\ awaiting \subseteq Command /\ failing \subseteq Command
  /\ recovering \in BOOLEAN /\ egressRecovering \in BOOLEAN

\* The groups are the types of the collector and of what it shares.
LEMMA TypesAreGroups ==
  /\ TypeOK => LinkTypes /\ DeviceTypes /\ StreamTypes /\ PacketTypes /\ TickTypes
  /\ TypeOK /\ UNCHANGED serviceVars /\ LinkTypes' /\ DeviceTypes' /\ StreamTypes'
       /\ PacketTypes' /\ TickTypes' => TypeOK'
BY DEF TypeOK, Service!ServiceTypeOK, Worker!CollectorTypeOK, Worker!None,
   LinkTypes,
   DeviceTypes, StreamTypes, PacketTypes, TickTypes, serviceVars

\* Publishing a result keeps the types of entries and results.
LEMMA PublishTypes ==
  ASSUME LinkTypes, NEW c \in Command, NEW v \in Service!Terminal,
         Worker!Publish(c, v) \/ Worker!MaybePublish(c, v) \/ Worker!Finish(c, v)
           \/ Worker!FinishFails(c, v)
  PROVE  /\ entry' \in [Command -> {"none", "queued", "pending", "gone", "orphan"}]
         /\ results' \subseteq Command \X Service!Terminal
BY DEF LinkTypes, Worker!Publish, Worker!MaybePublish, Worker!Finish,
   Worker!FinishFails

\* A failure is counted.
LEMMA FaultTypes ==
  ASSUME LinkTypes, Worker!Fault \/ Worker!NoFault PROVE faults' \in 0 .. MaxFaults
BY DEF LinkTypes, Worker!Fault, Worker!NoFault

\* The tick of the collector reads commands, and takes and ends packets.
LEMMA TickStepTypes ==
  ASSUME TypeOK, UNCHANGED serviceVars, NEW c,
         \/ Worker!ReadCommands
         \/ /\ c \in Command
            /\ \/ Worker!RejectStale(c) \/ Worker!RejectExpired(c)
               \/ Worker!Reserve(c) \/ Worker!Send(c)
               \/ \E v \in {"REJECTED", "UNKNOWN"} : Worker!Refuse(c, v)
  PROVE  TypeOK'
<1> USE DEF Worker!None, Worker!Recover, Worker!Abort, Worker!linkVars,
            Worker!deviceVars, Worker!egressVars, Worker!tickVars, Worker!recovery
<1>g. LinkTypes /\ DeviceTypes /\ StreamTypes /\ PacketTypes /\ TickTypes
  BY TypesAreGroups
<1>1. CASE Worker!ReadCommands
  <2>1. LinkTypes'
    BY <1>1, <1>g DEF Worker!ReadCommands, Worker!Claimed, Worker!Queued,
       Worker!Deliver, Worker!NoFault, Worker!Fault,
     LinkTypes
  <2>2. TickTypes'
    BY <1>1, <1>g DEF Worker!ReadCommands, Worker!Claimed, Worker!Queued,
     Worker!StillRecovering, TickTypes
  <2>3. DeviceTypes' /\ StreamTypes' /\ PacketTypes'
    BY <1>1, <1>g DEF Worker!ReadCommands, DeviceTypes, StreamTypes, PacketTypes
  <2> QED BY <2>1, <2>2, <2>3, TypesAreGroups
<1>2. CASE c \in Command /\ (Worker!RejectStale(c) \/ Worker!RejectExpired(c))
  <2>1. LinkTypes'
    BY <1>2, <1>g, PublishTypes, FaultTypes DEF Worker!RejectStale,
       Worker!RejectExpired,
     Worker!FailUndeliverable, LinkTypes, Service!Terminal
  <2>2. TickTypes'
    BY <1>2, <1>g DEF Worker!RejectStale, Worker!RejectExpired,
     Worker!FailUndeliverable, TickTypes
  <2>3. UNCHANGED <<Worker!deviceVars, ingress, Worker!egressVars, known>>
    BY <1>2, Zenon DEF Worker!RejectStale, Worker!RejectExpired,
       Worker!FailUndeliverable
  <2>4. DeviceTypes' /\ StreamTypes' /\ PacketTypes'
    BY <2>3, <1>g DEF DeviceTypes, StreamTypes, PacketTypes
  <2> QED BY <2>1, <2>2, <2>4, TypesAreGroups
<1>3. CASE c \in Command /\ Worker!Reserve(c)
  <2>1. LinkTypes'
    BY <1>3, <1>g, FaultTypes DEF Worker!Reserve, LinkTypes
  <2>2. TickTypes'
    BY <1>3, <1>g DEF Worker!Reserve, TickTypes
  <2>3. DeviceTypes' /\ StreamTypes' /\ PacketTypes'
    BY <1>3, <1>g DEF Worker!Reserve, DeviceTypes, StreamTypes, PacketTypes
  <2> QED BY <2>1, <2>2, <2>3, TypesAreGroups
<1>4. CASE c \in Command /\ Worker!Send(c)
  <2>1. LinkTypes' /\ DeviceTypes' /\ StreamTypes'
    BY <1>4, <1>g, FaultTypes DEF Worker!Send, LinkTypes, DeviceTypes,
       StreamTypes
  <2>2. TickTypes'
    BY <1>4, <1>g DEF Worker!Send, TickTypes
  <2>3. PacketTypes'
    <3>1. egress' \in Seq(Command)
      BY <1>4, <1>g, Appended, SMTT(40) DEF Worker!Send, PacketTypes
    <3>2. UNCHANGED <<delivered, ready, writing, written, unacked>>
      BY <1>4 DEF Worker!Send
    <3> QED BY <3>1, <3>2, <1>g DEF PacketTypes
  <2> QED BY <2>1, <2>2, <2>3, TypesAreGroups
<1>5. ASSUME c \in Command, NEW v \in {"REJECTED", "UNKNOWN"}, Worker!Refuse(c, v) PROVE TypeOK'
  <2>1. LinkTypes'
    BY <1>5, <1>g, PublishTypes, FaultTypes DEF Worker!Refuse, LinkTypes,
       Service!Terminal
  <2>2. TickTypes'
    BY <1>5, <1>g DEF Worker!Refuse, TickTypes
  <2>3. DeviceTypes' /\ StreamTypes' /\ PacketTypes'
    BY <1>5, <1>g DEF Worker!Refuse, DeviceTypes, StreamTypes, PacketTypes
  <2> QED BY <2>1, <2>2, <2>3, TypesAreGroups
<1> QED BY <1>1, <1>2, <1>3, <1>4, <1>5

\* What is acknowledged and deleted leaves the stream of packets.
LEMMA DropEffect ==
  ASSUME egress \in Seq(Command), NEW c \in Command, Worker!Drop(c)
  PROVE  /\ egress' \in Seq(Command) /\ delivered' = delivered \ {c}
         /\ Items(egress') \subseteq Items(egress)
         /\ Items(egress) \ {c} \subseteq Items(egress')
         /\ NoTwice(egress) => NoTwice(egress') /\ c \notin Items(egress')
<1>1. PICK i \in 1 .. Len(egress) : egress[i] = c /\ egress' = Worker!RemoveAt(egress, i)
  BY DEF Worker!Drop
<1>2. delivered' = delivered \ {c}
  BY DEF Worker!Drop
<1>3. /\ Worker!RemoveAt(egress, i) \in Seq(Command)
      /\ Items(Worker!RemoveAt(egress, i)) \subseteq Items(egress)
      /\ Items(egress) \ {egress[i]} \subseteq Items(Worker!RemoveAt(egress, i))
      /\ NoTwice(egress) => /\ NoTwice(Worker!RemoveAt(egress, i))
                            /\ egress[i] \notin Items(Worker!RemoveAt(egress, i))
  BY Removed
<1> QED BY ONLY <1>1, <1>2, <1>3

\* Packets are taken, written and acknowledged.
LEMMA PacketStepTypes ==
  ASSUME TypeOK, UNCHANGED serviceVars, NEW c,
         \/ Worker!EndRecovery
         \/ /\ c \in Command
            /\ \/ Worker!WaitForWork(c) \/ Worker!TakePacket(c)
               \/ Worker!Write(c) \/ Worker!CompleteEgress(c)
  PROVE  TypeOK'
<1> USE DEF Worker!None, Worker!Recover, Worker!linkVars, Worker!deviceVars,
            Worker!egressVars, Worker!tickVars, Worker!recovery
<1>g. LinkTypes /\ DeviceTypes /\ StreamTypes /\ PacketTypes /\ TickTypes
  BY TypesAreGroups
<1>1. CASE c \in Command /\ Worker!WaitForWork(c)
  <2>1. LinkTypes' /\ DeviceTypes' /\ StreamTypes'
    BY <1>1, <1>g, FaultTypes DEF Worker!WaitForWork, LinkTypes, DeviceTypes,
       StreamTypes
  <2>2. TickTypes'
    BY <1>1, <1>g DEF Worker!WaitForWork, TickTypes
  <2>3. PacketTypes'
    BY <1>1, <1>g DEF Worker!WaitForWork, PacketTypes
  <2> QED BY <2>1, <2>2, <2>3, TypesAreGroups
<1>2. CASE c \in Command /\ Worker!TakePacket(c)
  <2>1. LinkTypes' /\ DeviceTypes' /\ StreamTypes'
    BY <1>2, <1>g, FaultTypes DEF Worker!TakePacket, LinkTypes, DeviceTypes,
       StreamTypes
  <2>2. TickTypes'
    BY <1>2, <1>g DEF Worker!TakePacket, TickTypes
  <2>3. PacketTypes'
    <3>1. egress' \in Seq(Command) /\ delivered' \subseteq Command
      BY <1>2, <1>g, DropEffect DEF Worker!TakePacket, PacketTypes
    <3>2. /\ ready' = <<>> /\ unacked' = unacked
          /\ \/ writing' = c /\ written' = FALSE
             \/ writing' = writing /\ written' = written
      BY <1>2 DEF Worker!TakePacket
    <3>3. ready' \in Seq(Command) /\ unacked' \in Nat
      BY <3>2, <1>g, NoItems DEF PacketTypes
    <3>4. writing' \in Command \cup {"none"} /\ written' \in BOOLEAN
      BY <1>2, <3>2, <1>g DEF PacketTypes
    <3>5. written' => writing' # "none"
      BY <3>2, <1>g DEF PacketTypes
    <3> QED BY <3>1, <3>3, <3>4, <3>5 DEF PacketTypes
  <2> QED BY <2>1, <2>2, <2>3, TypesAreGroups
<1>3. CASE Worker!EndRecovery
  <2>1. LinkTypes' /\ DeviceTypes' /\ StreamTypes' /\ PacketTypes' /\ TickTypes'
    BY <1>3, <1>g DEF Worker!EndRecovery, LinkTypes, DeviceTypes, StreamTypes,
       PacketTypes, TickTypes
  <2> QED BY <2>1, TypesAreGroups
<1>4. CASE c \in Command /\ Worker!Write(c)
  <2>1. LinkTypes' /\ DeviceTypes' /\ StreamTypes'
    BY <1>4, <1>g DEF Worker!Write, LinkTypes, DeviceTypes, StreamTypes
  <2>2. PacketTypes' /\ TickTypes'
    BY <1>4, <1>g DEF Worker!Write, PacketTypes, TickTypes
  <2> QED BY <2>1, <2>2, TypesAreGroups
<1>5. CASE c \in Command /\ Worker!CompleteEgress(c)
  <2>1. LinkTypes' /\ DeviceTypes' /\ StreamTypes'
    BY <1>5, <1>g, FaultTypes DEF Worker!CompleteEgress, LinkTypes, DeviceTypes,
       StreamTypes
  <2>2. TickTypes'
    BY <1>5, <1>g DEF Worker!CompleteEgress, TickTypes
  <2>3. PacketTypes'
    <3>1. egress' \in Seq(Command) /\ delivered' \subseteq Command
      BY <1>5, <1>g, DropEffect DEF Worker!CompleteEgress, PacketTypes
    <3>2. /\ ready' = ready /\ unacked' \in {unacked, unacked + 1}
          /\ writing' = "none" /\ written' = FALSE
      BY <1>5 DEF Worker!CompleteEgress
    <3>3. ready' \in Seq(Command) /\ unacked' \in Nat
      BY <3>2, <1>g DEF PacketTypes
    <3>4. writing' \in Command \cup {"none"} /\ written' \in BOOLEAN
      BY <3>2, <1>g DEF PacketTypes
    <3>5. written' => writing' # "none"
      BY <3>2
    <3> QED BY <3>1, <3>3, <3>4, <3>5 DEF PacketTypes
  <2> QED BY <2>1, <2>2, <2>3, TypesAreGroups
<1> QED BY <1>1, <1>2, <1>3, <1>4, <1>5

\* Events of the socket and of the device.
LEMMA SocketStepTypes ==
  ASSUME TypeOK, WriteInv, UNCHANGED serviceVars, NEW c,
         \/ Worker!Connect \/ Worker!Disconnect \/ Worker!HandleUp \/ Worker!HandleDown
         \/ Worker!Refresh \/ Worker!TickFails
         \/ c \in Command /\ \E v \in Success : Worker!Answer(c, v)
  PROVE  TypeOK'
<1> USE DEF Worker!None, Worker!Recover, Worker!linkVars, Worker!deviceVars,
            Worker!egressVars, Worker!tickVars, Worker!recovery
<1>g. LinkTypes /\ DeviceTypes /\ StreamTypes /\ PacketTypes /\ TickTypes
  BY TypesAreGroups
<1>h. /\ \A s \in 1 .. MaxSession :
           /\ Worker!Event("up", s, "none", "none") \in Worker!Events
           /\ Worker!Event("down", s, "none", "none") \in Worker!Events
           /\ c \in Command =>
                \A v \in Success : Worker!Event("reply", s, c, v) \in Worker!Events
      /\ \A e \in Worker!Events : e.session \in 1 .. MaxSession
  BY DEF Worker!Event, Worker!Events, Success
<1>i. ingress # <<>> => Head(ingress) \in Worker!Events /\ Tail(ingress) \in Seq(Worker!Events)
  BY <1>g, HeadAndTail DEF StreamTypes
<1> HIDE DEF Worker!None
<1>n. Worker!None = "none"
  BY DEF Worker!None
<1>1. CASE Worker!Connect
  <2>1. live' \in 1 .. MaxSession /\ opened' \in 0 .. MaxSession
    BY <1>1, <1>g DEF Worker!Connect, DeviceTypes
  <2>2. StreamTypes'
    BY <1>1, <1>g, <1>h, <1>n, <2>1 DEF Worker!Connect, StreamTypes
  <2>3. LinkTypes' /\ DeviceTypes'
    BY <1>1, <1>g, <2>1 DEF Worker!Connect, LinkTypes, DeviceTypes
  <2>4. PacketTypes' /\ TickTypes'
    BY <1>1, <1>g DEF Worker!Connect, PacketTypes, TickTypes
  <2> QED BY <2>2, <2>3, <2>4, TypesAreGroups
<1>2. CASE Worker!Disconnect
  <2>1. live \in 1 .. MaxSession
    BY <1>2, <1>g DEF Worker!Disconnect, DeviceTypes
  <2>2. StreamTypes'
    BY <1>2, <1>g, <1>h, <1>n, <2>1 DEF Worker!Disconnect, StreamTypes
  <2>3. LinkTypes' /\ DeviceTypes'
    BY <1>2, <1>g, FaultTypes DEF Worker!Disconnect, LinkTypes, DeviceTypes
  <2>4. PacketTypes' /\ TickTypes'
    BY <1>2, <1>g DEF Worker!Disconnect, PacketTypes, TickTypes
  <2> QED BY <2>2, <2>3, <2>4, TypesAreGroups
<1>3. CASE Worker!HandleUp
  <2>1. StreamTypes'
    BY <1>3, <1>g, <1>h, <1>i DEF Worker!HandleUp, StreamTypes
  <2>2. LinkTypes' /\ DeviceTypes'
    BY <1>3, <1>g, FaultTypes DEF Worker!HandleUp, LinkTypes, DeviceTypes
  <2>3. PacketTypes' /\ TickTypes'
    BY <1>3, <1>g DEF Worker!HandleUp, PacketTypes, TickTypes
  <2> QED BY <2>1, <2>2, <2>3, TypesAreGroups
<1>4. CASE Worker!HandleDown
  <2>1. StreamTypes'
    BY <1>4, <1>g, <1>i DEF Worker!HandleDown, Worker!Retire, StreamTypes
  <2>2. LinkTypes' /\ DeviceTypes' /\ PacketTypes'
    BY <1>4, <1>g DEF Worker!HandleDown, LinkTypes, DeviceTypes, PacketTypes
  <2>3. TickTypes'
    BY <1>4, <1>g DEF Worker!HandleDown, Worker!Retire, TickTypes
  <2> QED BY <2>1, <2>2, <2>3, TypesAreGroups
<1>5. CASE Worker!Refresh
  <2>1. opened + 1 \in 1 .. MaxSession
    BY <1>5, <1>g DEF Worker!Refresh, DeviceTypes
  <2>2. StreamTypes' /\ DeviceTypes'
    BY <1>5, <1>g, <2>1 DEF Worker!Refresh, Worker!Retire, StreamTypes,
       DeviceTypes
  <2>3. LinkTypes' /\ PacketTypes'
    BY <1>5, <1>g DEF Worker!Refresh, LinkTypes, PacketTypes
  <2>4. TickTypes'
    BY <1>5, <1>g DEF Worker!Refresh, Worker!Retire, TickTypes
  <2> QED BY <2>2, <2>3, <2>4, TypesAreGroups
<1>6. CASE Worker!TickFails
  <2>1. LinkTypes' /\ DeviceTypes' /\ StreamTypes'
    BY <1>6, <1>g, FaultTypes DEF Worker!TickFails, LinkTypes, DeviceTypes,
       StreamTypes
  <2>2. PacketTypes' /\ TickTypes'
    BY <1>6, <1>g DEF Worker!TickFails, PacketTypes, TickTypes
  <2> QED BY <2>1, <2>2, TypesAreGroups
<1>7. ASSUME c \in Command, NEW v \in Success, Worker!Answer(c, v) PROVE TypeOK'
  <2>1. live \in 1 .. MaxSession
    <3>1. session[c] # 0
      BY <1>7, <1>g DEF Worker!Answer, WriteInv
    <3> QED BY <1>7, <1>g, <3>1 DEF Worker!Answer, DeviceTypes
  <2>2. StreamTypes'
    BY <1>7, <1>g, <1>h, <2>1 DEF Worker!Answer, StreamTypes
  <2>3. LinkTypes' /\ DeviceTypes'
    BY <1>7, <1>g DEF Worker!Answer, LinkTypes, DeviceTypes, Success
  <2>4. PacketTypes' /\ TickTypes'
    BY <1>7, <1>g DEF Worker!Answer, PacketTypes, TickTypes
  <2> QED BY <2>2, <2>3, <2>4, TypesAreGroups
<1> QED BY <1>1, <1>2, <1>3, <1>4, <1>5, <1>6, <1>7

\* Commands whose answer has come, or will not come.
LEMMA ResultStepTypes ==
  ASSUME TypeOK, AnswerInv, UNCHANGED serviceVars, NEW c,
         \/ Worker!HandleReply
         \/ c \in Command /\ (Worker!FailPending(c) \/ Worker!Timeout(c))
  PROVE  TypeOK'
<1> USE DEF Worker!None, Worker!Recover, Worker!Abort, Worker!linkVars,
            Worker!deviceVars, Worker!egressVars, Worker!tickVars, Worker!recovery
<1>g. LinkTypes /\ DeviceTypes /\ StreamTypes /\ PacketTypes /\ TickTypes
  BY TypesAreGroups
<1>1. CASE Worker!HandleReply
  <2> DEFINE e == Head(ingress)
  <2>1. e \in Worker!Events /\ Tail(ingress) \in Seq(Worker!Events)
    BY <1>1, <1>g, HeadAndTail DEF Worker!HandleReply, StreamTypes
  <2>a. e.command \in Command /\ e.verdict \in Success
    BY <1>1, <1>g, HeadAndTail DEF Worker!HandleReply, StreamTypes, AnswerInv
  <2>2. LinkTypes'
    <3>1. faults' \in 0 .. MaxFaults /\ lost' = lost
      BY <1>1, <1>g, FaultTypes DEF Worker!HandleReply
    <3>2. \/ UNCHANGED <<entry, results>>
          \/ /\ e.command \in awaiting
             /\ Worker!Finish(e.command, e.verdict) \/ Worker!FinishFails(e.command, e.verdict)
      BY <1>1 DEF Worker!HandleReply
    <3>3. CASE UNCHANGED <<entry, results>>
      BY <3>1, <3>3, <1>g DEF LinkTypes
    <3>4. CASE /\ e.command \in awaiting
               /\ Worker!Finish(e.command, e.verdict) \/ Worker!FinishFails(e.command, e.verdict)
      BY <3>1, <3>4, <1>g, <2>a, PublishTypes DEF LinkTypes, Service!Terminal,
         Success
    <3> QED BY <3>2, <3>3, <3>4
  <2>3. StreamTypes' /\ DeviceTypes' /\ PacketTypes'
    BY <1>1, <1>g, <2>1 DEF Worker!HandleReply, StreamTypes, DeviceTypes,
       PacketTypes
  <2>4. TickTypes'
    BY <1>1, <1>g DEF Worker!HandleReply, Worker!Finish, Worker!FinishFails,
       TickTypes
  <2> QED BY <2>2, <2>3, <2>4, TypesAreGroups
<1>2. CASE c \in Command /\ Worker!FailPending(c)
  <2>1. LinkTypes'
    BY <1>2, <1>g, PublishTypes, FaultTypes DEF Worker!FailPending, LinkTypes,
       Service!Terminal
  <2>2. StreamTypes' /\ DeviceTypes' /\ PacketTypes'
    BY <1>2, <1>g DEF Worker!FailPending, StreamTypes, DeviceTypes, PacketTypes
  <2>3. TickTypes'
    BY <1>2, <1>g DEF Worker!FailPending, Worker!Finish, Worker!FinishFails,
       TickTypes
  <2> QED BY <2>1, <2>2, <2>3, TypesAreGroups
<1>3. CASE c \in Command /\ Worker!Timeout(c)
  <2>1. LinkTypes'
    BY <1>3, <1>g, PublishTypes, FaultTypes DEF Worker!Timeout, LinkTypes,
       Service!Terminal
  <2>2. StreamTypes' /\ DeviceTypes' /\ PacketTypes'
    BY <1>3, <1>g DEF Worker!Timeout, StreamTypes, DeviceTypes, PacketTypes
  <2>3. TickTypes'
    BY <1>3, <1>g DEF Worker!Timeout, Worker!Finish, Worker!FinishFails,
       TickTypes
  <2> QED BY <2>1, <2>2, <2>3, TypesAreGroups
<1> QED BY <1>1, <1>2, <1>3

\* A process that dies leaves its rows.
LEMMA CrashTypes ==
  ASSUME TypeOK, Crash PROVE TypeOK'
<1>g. LinkTypes /\ DeviceTypes /\ StreamTypes /\ PacketTypes /\ TickTypes
  BY TypesAreGroups
<1>1. LinkTypes' /\ DeviceTypes'
  BY <1>g, FaultTypes DEF Crash, Worker!Crash, LinkTypes, DeviceTypes
<1>2. StreamTypes' /\ TickTypes'
  BY <1>g, NoItems DEF Crash, Worker!Crash, Worker!None, StreamTypes, TickTypes
<1>3. PacketTypes'
  BY <1>g, NoItems DEF Crash, Worker!Crash, Worker!None, PacketTypes
<1>4. Service!ServiceTypeOK'
  BY <1>1 DEF Crash, TypeOK, Service!ServiceTypeOK, LinkTypes
<1> QED BY <1>1, <1>2, <1>3, <1>4 DEF TypeOK, Worker!CollectorTypeOK,
           Worker!None, LinkTypes,
   DeviceTypes, StreamTypes, PacketTypes, TickTypes

\* Each step keeps the types.
LEMMA TypesKept ==
  ASSUME TypeOK, AnswerInv, WriteInv, Next PROVE TypeOK'
<1>1. ASSUME NEW c \in Command, Submit(c) \/ ServiceStep(c) PROVE TypeOK'
  BY <1>1, ServiceTypes
<1>2. CASE WorkerStep
  <2>1. UNCHANGED serviceVars /\ Worker!CollectorStep
    BY <1>2 DEF WorkerStep
  <2> QED BY <2>1, TickStepTypes, PacketStepTypes, SocketStepTypes,
             ResultStepTypes
          DEF Worker!CollectorStep, Success
<1> QED BY <1>1, <1>2, CrashTypes DEF Next

-----------------------------------------------------------------------------
(* Outcomes are real                                                       *)

\* A result is published with the end of the entry of its command, or not at all.
LEMMA Published ==
  ASSUME NEW c, NEW v,
         Worker!Publish(c, v) \/ Worker!MaybePublish(c, v) \/ Worker!Finish(c, v)
           \/ Worker!FinishFails(c, v)
  PROVE  \/ UNCHANGED <<entry, results>>
         \/ /\ entry[c] = "pending" /\ entry' = [entry EXCEPT ![c] = "gone"]
            /\ results' = results \cup {<<c, v>>}
BY DEF Worker!Publish, Worker!MaybePublish, Worker!Finish, Worker!FinishFails,
   Worker!OwnsEntry

\* Nothing is said about a command but that it is rejected or unknown, and no reply
\* arrives.
NothingSaid ==
  /\ UNCHANGED <<status, answered>>
  /\ \A c \in Command : \A v \in Success : <<c, v>> \in results' => <<c, v>> \in results
  /\ \A e \in Items(ingress') : e \in Items(ingress) \/ e.kind # "reply"

\* Then the answers are where they were.
LEMMA NothingSaidKeeps ==
  ASSUME AnswerInv, NothingSaid PROVE AnswerInv'
BY DEF AnswerInv, NothingSaid, OutcomeIsReal

\* Steps of the collector that say nothing.
LEMMA SaysNothing ==
  ASSUME TypeOK, UNCHANGED serviceVars, NEW c,
         \/ Worker!ReadCommands \/ Worker!RejectStale(c) \/ Worker!RejectExpired(c)
         \/ Worker!Reserve(c) \/ Worker!Send(c)
         \/ (\E v \in {"REJECTED", "UNKNOWN"} : Worker!Refuse(c, v))
         \/ Worker!WaitForWork(c) \/ Worker!TakePacket(c) \/ Worker!EndRecovery
         \/ Worker!Write(c) \/ Worker!CompleteEgress(c)
         \/ Worker!Connect \/ Worker!Disconnect \/ Worker!HandleUp \/ Worker!HandleDown
         \/ Worker!Refresh \/ Worker!TickFails
         \/ Worker!FailPending(c) \/ Worker!Timeout(c)
  PROVE  NothingSaid
<1>1. status' = status
  BY DEF serviceVars
<1>2. answered' = answered
  BY DEF Worker!deviceVars, Worker!ReadCommands, Worker!RejectStale,
     Worker!RejectExpired, Worker!FailUndeliverable,
    Worker!Reserve, Worker!Send, Worker!Refuse, Worker!WaitForWork, Worker!TakePacket,
    Worker!EndRecovery, Worker!Write, Worker!CompleteEgress, Worker!Connect, Worker!Disconnect,
    Worker!HandleUp, Worker!HandleDown, Worker!Refresh, Worker!TickFails, Worker!FailPending, Worker!Timeout
<1>3. \/ results' = results
      \/ \E v \in {"REJECTED", "UNKNOWN"} : results' = results \cup {<<c, v>>}
  BY Published DEF Worker!linkVars, Worker!ReadCommands, Worker!RejectStale,
     Worker!RejectExpired, Worker!FailUndeliverable,
    Worker!Reserve, Worker!Send, Worker!Refuse, Worker!WaitForWork, Worker!TakePacket,
    Worker!EndRecovery, Worker!Write, Worker!CompleteEgress, Worker!Connect, Worker!Disconnect,
    Worker!HandleUp, Worker!HandleDown, Worker!Refresh, Worker!TickFails, Worker!FailPending, Worker!Timeout
<1>4. \A e \in Items(ingress') : e \in Items(ingress) \/ e.kind # "reply"
  <2>1. ingress \in Seq(Worker!Events) /\ live \in 0 .. MaxSession /\ opened \in 0 .. MaxSession
    BY DEF TypeOK, Worker!CollectorTypeOK
  <2>2. CASE Worker!Connect \/ Worker!Disconnect
    <3>1. PICK k \in {"up", "down"}, s \in 0 .. MaxSession :
            \/ ingress' = Append(ingress, Worker!Event(k, s, Worker!None, Worker!None))
               /\ s \in 1 .. MaxSession
            \/ ingress' = ingress
      BY <2>1, <2>2 DEF Worker!Connect, Worker!Disconnect
    <3> DEFINE x == Worker!Event(k, s, Worker!None, Worker!None)
    <3>2. x.kind = k /\ (s \in 1 .. MaxSession => x \in Worker!Events)
      BY DEF Worker!Event, Worker!Events
    <3> HIDE DEF x
    <3>3. x \in Worker!Events => Items(Append(ingress, x)) = Items(ingress) \cup {x}
      BY <2>1, Appended
    <3>4. ingress' = ingress \/ Items(ingress') = Items(ingress) \cup {x}
      BY <3>1, <3>2, <3>3 DEF x
    <3> QED BY <3>2, <3>4
  <2>3. CASE Worker!HandleUp \/ Worker!HandleDown
    <3>1. ingress' = ingress \/ ingress' = Tail(ingress)
      BY <2>3 DEF Worker!HandleUp, Worker!HandleDown
    <3>2. ingress # <<>>
      BY <2>3 DEF Worker!HandleUp, Worker!HandleDown
    <3>3. Items(ingress') \subseteq Items(ingress)
      BY <2>1, <3>1, <3>2, HeadAndTail
    <3> QED BY <3>3
  <2>4. CASE ~(Worker!Connect \/ Worker!Disconnect \/ Worker!HandleUp \/ Worker!HandleDown)
    <3>1. ingress' = ingress
      BY <2>4 DEF Worker!ReadCommands, Worker!RejectStale, Worker!RejectExpired,
         Worker!FailUndeliverable, Worker!Reserve, Worker!Send, Worker!Refuse,
         Worker!WaitForWork, Worker!TakePacket, Worker!EndRecovery, Worker!Write,
         Worker!CompleteEgress, Worker!Refresh, Worker!TickFails, Worker!FailPending,
         Worker!Timeout
    <3> QED BY <3>1
  <2> QED BY <2>2, <2>3, <2>4
<1>5. \A d \in Command : \A v \in Success : <<d, v>> \in results' => <<d, v>> \in results
  BY <1>3 DEF Success
<1> QED BY <1>1, <1>2, <1>4, <1>5 DEF NothingSaid

\* The device answers: the answer is the first one, and goes on its way.
LEMMA AnswerKeepsAnswers ==
  ASSUME TypeOK, AnswerInv, WriteInv, UNCHANGED serviceVars, NEW c \in Command,
         NEW v \in Success, Worker!Answer(c, v)
  PROVE  AnswerInv'
<1>1. /\ answered[c] = "none" /\ answered' = [answered EXCEPT ![c] = v]
      /\ UNCHANGED <<status, results>>
  BY DEF Worker!Answer, Worker!None, Worker!linkVars, serviceVars
<1>2. /\ ingress \in Seq(Worker!Events) /\ live \in 0 .. MaxSession
      /\ answered \in [Command -> {"none", "SUCCEEDED", "FAILED"}]
      /\ live # 0
  BY DEF TypeOK, Worker!CollectorTypeOK, Worker!None, WriteInv, Worker!Answer
<1> DEFINE x == Worker!Event("reply", live, c, v)
<1>3. x \in Worker!Events /\ x.kind = "reply" /\ x.command = c /\ x.verdict = v
  BY <1>2 DEF Worker!Event, Worker!Events, Success
<1>4. ingress' = Append(ingress, x)
  BY DEF Worker!Answer
<1> HIDE DEF x
<1>5. Items(ingress') = Items(ingress) \cup {x}
  BY <1>2, <1>3, <1>4, Appended
<1>6. \A d \in Command : answered[d] \in Success => answered'[d] = answered[d]
  BY <1>1, <1>2 DEF Success
<1>7. answered'[c] = v
  BY <1>1, <1>2
<1> QED BY <1>1, <1>3, <1>5, <1>6, <1>7 DEF AnswerInv, OutcomeIsReal, Success

\* What the collector takes from a reply is what the device has answered.
LEMMA ReplyKeepsAnswers ==
  ASSUME TypeOK, AnswerInv, UNCHANGED serviceVars, Worker!HandleReply
  PROVE  AnswerInv'
<1> DEFINE e == Head(ingress)
<1>1. /\ e \in Items(ingress) /\ e.kind = "reply"
      /\ Items(ingress') \subseteq Items(ingress)
  <2>1. ingress \in Seq(Worker!Events) /\ ingress # <<>> /\ e.kind = "reply"
    BY DEF TypeOK, Worker!CollectorTypeOK, Worker!HandleReply
  <2>2. ingress' = ingress \/ ingress' = Tail(ingress)
    BY DEF Worker!HandleReply
  <2> QED BY <2>1, <2>2, HeadAndTail
<1>2. e.command \in Command /\ e.verdict \in Success /\ answered[e.command] = e.verdict
  BY <1>1 DEF AnswerInv
<1>3. UNCHANGED <<status, answered>>
  BY DEF serviceVars, Worker!HandleReply, Worker!deviceVars
<1>4. results' = results \/ results' = results \cup {<<e.command, e.verdict>>}
  <2>1. \/ UNCHANGED <<entry, results>>
        \/ Worker!Finish(e.command, e.verdict) \/ Worker!FinishFails(e.command, e.verdict)
    BY DEF Worker!HandleReply
  <2> QED BY <1>2, <2>1, Published
<1> HIDE DEF e
<1>5. \A c \in Command : \A v \in Success : <<c, v>> \in results' => answered[c] = v
  BY <1>2, <1>4 DEF AnswerInv
<1> QED BY <1>1, <1>3, <1>5 DEF AnswerInv, OutcomeIsReal

\* The service records what it is told.
LEMMA ServiceKeepsAnswers ==
  ASSUME TypeOK, AnswerInv, NEW c \in Command, Submit(c) \/ ServiceStep(c)
  PROVE  AnswerInv'
<1>1. UNCHANGED <<answered, ingress>>
  BY DEF Submit, ServiceStep, workerVars
<1>2. status \in [Command -> {"none"} \cup Service!Open \cup Service!Terminal]
  BY DEF TypeOK, Service!ServiceTypeOK
<1>3. results' \subseteq results
  BY DEF Submit, ServiceStep, Service!ServiceStep, Service!Submit,
     Service!Deadline,
     Service!Claim, Service!Enqueue, Service!RecordOutcome, Service!Expire,
     Service!Project, Service!linkVars
<1>4. \A d \in Command : status'[d] \in Success =>
        status'[d] = status[d] \/ <<d, status'[d]>> \in results
  <2>1. CASE Submit(c)
    BY <1>2, <2>1 DEF Submit, Service!Submit, Success
  <2>2. CASE Service!Deadline(c) \/ Service!Enqueue(c)
    BY <2>2 DEF Service!Deadline, Service!Enqueue
  <2>3. CASE Service!Claim(c)
    BY <1>2, <2>3 DEF Service!Claim, Success
  <2>4. CASE Service!RecordOutcome(c)
    BY <1>2, <2>4 DEF Service!RecordOutcome, Service!Record, Service!NextStatus,
       Success
  <2>5. CASE Service!Expire(c)
    BY <1>2, <2>5 DEF Service!Expire, Service!ExpiredState, Success
  <2>6. ASSUME NEW v \in Service!Terminal, Service!Project(c, v)
        PROVE  \A d \in Command : status'[d] \in Success =>
                 status'[d] = status[d] \/ <<d, status'[d]>> \in results
    BY <1>2, <2>6 DEF Service!Project
  <2> QED BY <2>1, <2>2, <2>3, <2>4, <2>5, <2>6 DEF ServiceStep,
             Service!ServiceStep
<1> QED BY <1>1, <1>3, <1>4 DEF AnswerInv, OutcomeIsReal, Success

\* Each step keeps the answers.
LEMMA AnswersKept ==
  ASSUME CommandInv, Next PROVE AnswerInv'
<1> USE DEF CommandInv
<1>1. ASSUME NEW c \in Command, Submit(c) \/ ServiceStep(c) PROVE AnswerInv'
  BY <1>1, ServiceKeepsAnswers
<1>2. CASE Crash
  <2>1. NothingSaid
    BY <1>2, NoItems DEF Crash, Worker!Crash, NothingSaid
  <2> QED BY <2>1, NothingSaidKeeps
<1>3. CASE WorkerStep
  <2>1. UNCHANGED serviceVars /\ Worker!CollectorStep
    BY <1>3 DEF WorkerStep
  <2>2. ASSUME NEW c \in Command, NEW v \in Success, Worker!Answer(c, v) PROVE AnswerInv'
    BY <2>1, <2>2, AnswerKeepsAnswers
  <2>3. CASE Worker!HandleReply
    BY <2>1, <2>3, ReplyKeepsAnswers
  <2>4. ASSUME NothingSaid PROVE AnswerInv'
    BY <2>4, NothingSaidKeeps
  <2> QED BY <2>1, <2>2, <2>3, <2>4, SaysNothing DEF Worker!CollectorStep,
             Success
<1> QED BY <1>1, <1>2, <1>3 DEF Next

-----------------------------------------------------------------------------
(* What is written                                                         *)

\* Types of what WriteInv is about.
LEMMA WriteFacts ==
  ASSUME TypeOK
  PROVE  /\ egress \in Seq(Command) /\ ready \in Seq(Command)
         /\ sent \in [Command -> Nat] /\ session \in [Command -> 0 .. MaxSession]
         /\ unacked \in Nat /\ known \subseteq 1 .. MaxSession
         /\ current \in Command \cup {"none"} /\ "none" \notin Command
         /\ delivered \subseteq Command /\ written \in BOOLEAN
         /\ writing \in Command \cup {"none"}
BY DEF TypeOK, Service!ServiceTypeOK, Worker!CollectorTypeOK, Worker!None

\* A step after which no packet has moved, and no command is about to be sent that
\* was not before.
NothingMoves ==
  /\ UNCHANGED <<sent, unacked, reserved, session, egress, delivered, ready, writing,
                 written>>
  /\ current' \in {current, "none"}

\* It keeps what WriteInv says.
LEMMA NothingMovesKeeps ==
  ASSUME TypeOK, WriteInv, NothingMoves PROVE WriteInv'
BY WriteFacts DEF NothingMoves, WriteInv, RewritesAreFaults

\* The steps of the collector that are like this.
LEMMA MovesNothing ==
  ASSUME UNCHANGED serviceVars, NEW c,
         \/ Worker!ReadCommands \/ Worker!RejectStale(c) \/ Worker!RejectExpired(c)
         \/ (\E v \in {"REJECTED", "UNKNOWN"} : Worker!Refuse(c, v))
         \/ Worker!EndRecovery \/ Worker!Connect \/ Worker!Disconnect
         \/ Worker!HandleUp \/ Worker!HandleDown \/ Worker!HandleReply
         \/ (\E v \in Success : Worker!Answer(c, v))
         \/ Worker!Refresh \/ Worker!TickFails
         \/ Worker!FailPending(c) \/ Worker!Timeout(c)
  PROVE  NothingMoves
<1>1. session' = session
  BY DEF serviceVars
<1>2. UNCHANGED <<sent, reserved>>
  BY DEF Worker!ReadCommands, Worker!RejectStale, Worker!RejectExpired,
     Worker!FailUndeliverable, Worker!Refuse, Worker!EndRecovery, Worker!Connect,
     Worker!Disconnect, Worker!HandleUp, Worker!HandleDown, Worker!HandleReply,
     Worker!Answer, Worker!Refresh, Worker!TickFails, Worker!FailPending, Worker!Timeout, Worker!deviceVars
<1>3. UNCHANGED <<unacked, egress, delivered, ready, writing, written>>
  BY DEF Worker!ReadCommands, Worker!RejectStale, Worker!RejectExpired,
     Worker!FailUndeliverable, Worker!Refuse, Worker!EndRecovery, Worker!Connect,
     Worker!Disconnect, Worker!HandleUp, Worker!HandleDown, Worker!HandleReply,
     Worker!Answer, Worker!Refresh, Worker!TickFails, Worker!FailPending, Worker!Timeout, Worker!egressVars
<1>4. current' \in {current, "none"}
  BY DEF Worker!ReadCommands, Worker!RejectStale, Worker!RejectExpired,
     Worker!FailUndeliverable, Worker!Refuse, Worker!EndRecovery, Worker!Connect,
     Worker!Disconnect, Worker!HandleUp, Worker!HandleDown, Worker!HandleReply,
     Worker!Answer, Worker!Refresh, Worker!TickFails, Worker!FailPending, Worker!Timeout, Worker!tickVars, Worker!Retire, Worker!Abort, Worker!None
<1> QED BY <1>1, <1>2, <1>3, <1>4 DEF NothingMoves

\* The service moves no packet; a command gets its session before its entry.
LEMMA ServiceKeepsWrites ==
  ASSUME TypeOK, WriteInv, NEW c \in Command, Submit(c) \/ ServiceStep(c)
  PROVE  WriteInv'
<1>1. UNCHANGED workerVars
  BY DEF Submit, ServiceStep
<1>2. \A d \in Command : session[d] # 0 => session'[d] # 0
  <2>1. CASE Submit(c)
    <3>1. PICK s \in 1 .. opened : session' = [session EXCEPT ![c] = s]
      BY <2>1 DEF Submit, Service!Submit
    <3> QED BY <3>1, WriteFacts DEF TypeOK, Worker!CollectorTypeOK
  <2>2. CASE ServiceStep(c)
    <3>1. session' = session
      BY <2>2 DEF ServiceStep, Service!ServiceStep, Service!Deadline,
         Service!Claim,
         Service!Enqueue, Service!RecordOutcome, Service!Expire, Service!Project
    <3> QED BY <3>1
  <2> QED BY <2>1, <2>2
<1> QED BY <1>1, <1>2 DEF WriteInv, RewritesAreFaults, workerVars

\* A command that is reserved has no packet and has not been written.
LEMMA ReserveKeepsWrites ==
  ASSUME TypeOK, WriteInv, UNCHANGED serviceVars, NEW c \in Command, Worker!Reserve(c)
  PROVE  WriteInv'
<1>1. /\ UNCHANGED <<sent, unacked, session, egress, delivered, ready, writing, written>>
      /\ \/ reserved' = reserved /\ current' \in {current, "none"}
         \/ reserved' = reserved \cup {c} /\ current' = "none"
         \/ c \notin reserved /\ reserved' = reserved \cup {c} /\ current' = c
  BY DEF Worker!Reserve, Worker!Reserved, Worker!Abort, Worker!None,
     Worker!egressVars,
     Worker!deviceVars, serviceVars
<1> QED BY <1>1, WriteFacts DEF WriteInv, RewritesAreFaults

\* The packet of a command is new in the stream.
LEMMA SendKeepsWrites ==
  ASSUME TypeOK, WriteInv, UNCHANGED serviceVars, NEW c \in Command, Worker!Send(c)
  PROVE  WriteInv'
<1>1. /\ UNCHANGED <<sent, unacked, session, delivered, ready, writing, written, reserved>>
      /\ current = c /\ current' = "none"
      /\ egress' = egress \/ egress' = Append(egress, c)
  BY DEF Worker!Send, Worker!Abort, Worker!None, Worker!deviceVars, serviceVars
<1>2. egress \in Seq(Command) /\ c \notin Items(egress)
  BY <1>1, WriteFacts DEF WriteInv
<1>3. CASE egress' = egress
  BY <1>1, <1>3, WriteFacts DEF WriteInv, RewritesAreFaults
<1>4. CASE egress' = Append(egress, c)
  <2>1. Items(egress') = Items(egress) \cup {c} /\ (NoTwice(egress) => NoTwice(egress'))
    BY <1>2, <1>4, Appended
  <2> QED BY <1>1, <2>1, WriteFacts DEF WriteInv, RewritesAreFaults
<1> QED BY <1>1, <1>3, <1>4

\* A packet that leads is in the stream.
LEMMA LeadIsPacket ==
  ASSUME NEW c, NEW S, Worker!Leads(c, S) PROVE c \in Items(egress) /\ c \in S
BY DEF Worker!Leads, Items

\* The worker hears of a packet before it can take it.
LEMMA WaitKeepsWrites ==
  ASSUME TypeOK, WriteInv, UNCHANGED serviceVars, NEW c \in Command, Worker!WaitForWork(c)
  PROVE  WriteInv'
<1>1. /\ UNCHANGED <<sent, unacked, session, writing, written, reserved, current, egress>>
      /\ delivered' = delivered \cup {c}
      /\ ready' = ready \/ ready' = Append(ready, c)
  BY DEF Worker!WaitForWork, Worker!tickVars, Worker!deviceVars, serviceVars
<1>2. c \in Items(egress) /\ c \notin delivered
  BY LeadIsPacket DEF Worker!WaitForWork, Worker!Undelivered
<1>3. Items(ready') \subseteq Items(ready) \cup {c}
  BY <1>1, WriteFacts, Appended
<1> QED BY <1>1, <1>2, <1>3, WriteFacts DEF WriteInv, RewritesAreFaults

\* A packet that is taken is in the stream, and is not being written.
LEMMA TakeKeepsWrites ==
  ASSUME TypeOK, WriteInv, UNCHANGED serviceVars, NEW c \in Command, Worker!TakePacket(c)
  PROVE  WriteInv'
<1>1. /\ UNCHANGED <<sent, unacked, session, reserved, current>>
      /\ writing = "none" /\ ready' = <<>>
      /\ \/ /\ live = session[c] /\ ~Worker!Stale(c) /\ egress' = egress
            /\ writing' = c /\ written' = FALSE /\ delivered' = delivered \cup {c}
         \/ Worker!Drop(c) /\ UNCHANGED <<writing, written>>
         \/ delivered' = delivered \cup {c} /\ UNCHANGED <<egress, writing, written>>
  BY DEF Worker!TakePacket, Worker!tickVars, Worker!deviceVars, Worker!None,
     serviceVars
<1>2. c \in Items(egress)
  <2>1. ready # <<>> => Head(ready) \in Items(ready)
    BY WriteFacts, HeadAndTail
  <2> QED BY <2>1, LeadIsPacket DEF Worker!TakePacket, Worker!NextPacket,
             WriteInv
<1>3. Items(ready') = {}
  BY <1>1, NoItems
<1>4. CASE /\ live = session[c] /\ ~Worker!Stale(c) /\ egress' = egress
           /\ writing' = c /\ written' = FALSE /\ delivered' = delivered \cup {c}
  <2>1. session[c] # 0
    BY <1>4, WriteFacts DEF Worker!Stale
  <2> QED BY <1>1, <1>2, <1>3, <1>4, <2>1, WriteFacts DEF WriteInv,
             RewritesAreFaults
<1>5. CASE Worker!Drop(c) /\ UNCHANGED <<writing, written>>
  BY <1>1, <1>3, <1>5, WriteFacts, DropEffect DEF WriteInv, RewritesAreFaults
<1>6. CASE delivered' = delivered \cup {c} /\ UNCHANGED <<egress, writing, written>>
  BY <1>1, <1>2, <1>3, <1>6, WriteFacts DEF WriteInv, RewritesAreFaults
<1> QED BY <1>1, <1>4, <1>5, <1>6

\* A packet is written once more only if an acknowledgement has failed.
LEMMA WriteKeepsWrites ==
  ASSUME TypeOK, WriteInv, UNCHANGED serviceVars, NEW c \in Command, Worker!Write(c)
  PROVE  WriteInv'
<1>1. /\ UNCHANGED <<unacked, session, reserved, current, egress, delivered, ready, writing>>
      /\ writing = c /\ ~written /\ written'
      /\ sent' = sent \/ sent' = [sent EXCEPT ![c] = @ + 1]
  BY DEF Worker!Write, Worker!tickVars, serviceVars
<1>2. c \in Items(egress) /\ c \in reserved /\ current # c /\ sent[c] <= unacked
      /\ session[c] # 0
  BY <1>1, WriteFacts DEF WriteInv
<1>3. /\ \A d \in Command : d # c => sent'[d] = sent[d]
      /\ sent'[c] \in {sent[c], sent[c] + 1}
  BY <1>1, WriteFacts
<1>4. RewritesAreFaults'
  <2>1. sent'[c] <= 1 + unacked
    BY <1>2, <1>3, WriteFacts
  <2>2. \A d \in Command : d # c => sent'[d] <= 1 + unacked
    BY <1>3 DEF WriteInv, RewritesAreFaults
  <2> QED BY <1>1, <2>1, <2>2 DEF RewritesAreFaults
<1>5. \A d \in Command :
        /\ writing' = d \/ sent'[d] > 0 => session[d] # 0
        /\ d \notin reserved => sent'[d] = 0 /\ d \notin Items(egress) /\ current # d
        /\ current = d => sent'[d] = 0 /\ d \notin Items(egress)
        /\ d \in Items(egress) /\ ~(writing' = d /\ written') => sent'[d] <= unacked
  BY <1>1, <1>2, <1>3, WriteFacts DEF WriteInv
<1> QED BY <1>1, <1>4, <1>5 DEF WriteInv

\* A packet whose acknowledgement fails stays, and the failure is counted.
LEMMA CompleteKeepsWrites ==
  ASSUME TypeOK, WriteInv, UNCHANGED serviceVars, NEW c \in Command, Worker!CompleteEgress(c)
  PROVE  WriteInv'
<1>1. /\ UNCHANGED <<sent, session, reserved, current, ready>>
      /\ writing = c /\ written /\ writing' = "none" /\ written' = FALSE
      /\ \/ Worker!Drop(c) /\ unacked' \in {unacked, unacked + 1}
         \/ UNCHANGED <<egress, delivered>> /\ unacked' = unacked + 1
  BY DEF Worker!CompleteEgress, Worker!tickVars, Worker!deviceVars, Worker!None,
     serviceVars
<1>2. c \notin Items(ready)
  BY <1>1 DEF WriteInv
<1>3. CASE Worker!Drop(c) /\ unacked' \in {unacked, unacked + 1}
  BY <1>1, <1>2, <1>3, WriteFacts, DropEffect DEF WriteInv, RewritesAreFaults
<1>4. CASE UNCHANGED <<egress, delivered>> /\ unacked' = unacked + 1
  BY <1>1, <1>4, WriteFacts DEF WriteInv, RewritesAreFaults
<1> QED BY <1>1, <1>3, <1>4

\* Each step keeps what WriteInv says.
LEMMA WritesKept ==
  ASSUME TypeOK, WriteInv, Next PROVE WriteInv'
<1>1. ASSUME NEW c \in Command, Submit(c) \/ ServiceStep(c) PROVE WriteInv'
  BY <1>1, ServiceKeepsWrites
<1>2. CASE Crash
  <2>1. /\ UNCHANGED <<sent, unacked, reserved, session>> /\ egress' = <<>>
        /\ delivered' = {} /\ ready' = <<>> /\ writing' = "none" /\ current' = "none"
    BY <1>2 DEF Crash, Worker!Crash, Worker!None
  <2> QED BY <2>1, NoItems, WriteFacts DEF WriteInv, RewritesAreFaults
<1>3. CASE WorkerStep
  <2>1. UNCHANGED serviceVars /\ Worker!CollectorStep
    BY <1>3 DEF WorkerStep
  <2>2. ASSUME NothingMoves PROVE WriteInv'
    BY <2>2, NothingMovesKeeps
  <2>3. ASSUME NEW c \in Command,
               \/ Worker!Reserve(c) \/ Worker!Send(c) \/ Worker!WaitForWork(c)
               \/ Worker!TakePacket(c) \/ Worker!Write(c) \/ Worker!CompleteEgress(c)
        PROVE  WriteInv'
    BY <2>1, <2>3, ReserveKeepsWrites, SendKeepsWrites, WaitKeepsWrites,
       TakeKeepsWrites,
       WriteKeepsWrites, CompleteKeepsWrites
  <2> QED BY <2>1, <2>2, <2>3, MovesNothing DEF Worker!CollectorStep, Success
<1> QED BY <1>1, <1>2, <1>3 DEF Next

-----------------------------------------------------------------------------
(* As long as nothing fails                                                *)

\* Types of what CalmInv is about.
LEMMA CalmFacts ==
  ASSUME TypeOK
  PROVE  /\ entry \in [Command -> {"none", "queued", "pending", "gone", "orphan"}]
         /\ dispatch \in [Command -> {"none", "enqueue", "published", "full", "failed"}]
         /\ status \in [Command -> {"none"} \cup Service!Open \cup Service!Terminal]
         /\ claimed \in [Command -> BOOLEAN] /\ sent \in [Command -> Nat]
         /\ egress \in Seq(Command) /\ faults \in Nat
BY DEF TypeOK, Service!ServiceTypeOK, Worker!CollectorTypeOK

\* A step that has not failed.
LEMMA NothingFails ==
  ASSUME TypeOK, faults' = 0
  PROVE  ~Worker!Fault /\ ~Service!Fault
BY CalmFacts DEF Worker!Fault, Service!Fault

\* A step that does nothing to command d that would matter.
Stays(d) ==
  /\ sent'[d] = sent[d] /\ entry'[d] = entry[d] /\ dispatch'[d] = dispatch[d]
  /\ status'[d] = status[d] /\ claimed'[d] = claimed[d]
  /\ d \in batch' => d \in batch
  /\ current' = d => current = d
  /\ d \in reserved' <=> d \in reserved
  /\ d \in pending' => d \in pending
  /\ <<d, "REJECTED">> \in results' => <<d, "REJECTED">> \in results
  /\ d \in Items(egress') => d \in Items(egress)

\* Such a command is as calm as it was.
LEMMA StaysCalm ==
  ASSUME NEW d, CalmOf(d), Stays(d) PROVE CalmOf(d)'
BY DEF CalmOf, Spared, Stays

\* All commands stay, and nothing is read.
AllStay ==
  /\ \A d \in Command : Stays(d)
  /\ UNCHANGED <<faults, recovering, entry, batch, current>>

\* Then all of them are calm.
LEMMA AllStayCalm ==
  ASSUME CalmInv, AllStay PROVE CalmInv'
<1>1. faults = 0 => \A c \in Command : CalmOf(c)'
  BY StaysCalm DEF CalmInv, AllStay
<1>2. Worker!Claimed' = Worker!Claimed
  BY DEF Worker!Claimed, AllStay
<1>3. CalmInv' <=> (faults' = 0 => /\ recovering' => Worker!Claimed' = {}
                                   /\ current' \notin batch'
                                   /\ \A c \in Command : CalmOf(c)')
  BY DEF CalmInv
<1> QED BY <1>1, <1>2, <1>3 DEF CalmInv, AllStay

\* Sockets, events and packets do nothing to a command.
LEMMA CommandsStay ==
  ASSUME TypeOK, UNCHANGED serviceVars, faults' = 0, NEW c,
         \/ Worker!Connect \/ Worker!Disconnect \/ Worker!HandleUp \/ Worker!HandleDown
         \/ Worker!Refresh \/ Worker!EndRecovery \/ Worker!TickFails
         \/ (\E v \in Success : Worker!Answer(c, v))
         \/ Worker!WaitForWork(c) \/ Worker!TakePacket(c) \/ Worker!CompleteEgress(c)
  PROVE  AllStay
<1>1. ~Worker!Fault
  BY NothingFails
<1>2. UNCHANGED <<status, claimed, dispatch>>
  BY DEF serviceVars
<1>3. UNCHANGED <<sent, reserved, pending>>
  BY DEF Worker!Connect, Worker!Disconnect, Worker!HandleUp, Worker!HandleDown,
     Worker!Refresh, Worker!EndRecovery, Worker!TickFails, Worker!Answer,
     Worker!WaitForWork, Worker!TakePacket, Worker!CompleteEgress, Worker!deviceVars, Worker!Retire
<1>4. UNCHANGED <<entry, results, batch, current>>
  BY DEF Worker!Connect, Worker!Disconnect, Worker!HandleUp, Worker!HandleDown,
     Worker!Refresh, Worker!EndRecovery, Worker!TickFails, Worker!Answer,
     Worker!WaitForWork, Worker!TakePacket, Worker!CompleteEgress, Worker!linkVars, Worker!tickVars, Worker!Retire
<1>5. UNCHANGED <<faults, recovering>>
  BY <1>1 DEF Worker!Connect, Worker!Disconnect, Worker!HandleUp,
     Worker!HandleDown,
     Worker!Refresh, Worker!EndRecovery, Worker!TickFails, Worker!Answer,
     Worker!WaitForWork, Worker!TakePacket, Worker!CompleteEgress, Worker!recovery, Worker!NoFault
<1>6. Items(egress') \subseteq Items(egress)
  <2>1. egress' = egress \/ Worker!Drop(c)
    BY DEF Worker!Connect, Worker!Disconnect, Worker!HandleUp,
       Worker!HandleDown,
     Worker!Refresh, Worker!EndRecovery, Worker!TickFails, Worker!Answer,
     Worker!WaitForWork, Worker!TakePacket, Worker!CompleteEgress, Worker!egressVars
  <2>2. Worker!Drop(c) => Items(egress') \subseteq Items(egress)
    <3> SUFFICES ASSUME Worker!Drop(c) PROVE Items(egress') \subseteq Items(egress)
      OBVIOUS
    <3>1. PICK i \in 1 .. Len(egress) : egress' = Worker!RemoveAt(egress, i)
      BY DEF Worker!Drop
    <3> QED BY <3>1, CalmFacts, Removed
  <2> QED BY <2>1, <2>2
<1> QED BY <1>2, <1>3, <1>4, <1>5, <1>6 DEF AllStay, Stays

\* One command changes, and none becomes pending by it.
LEMMA OneChanges ==
  ASSUME CalmInv, faults = 0, faults' = 0, NEW c \in Command,
         \A d \in Command : d # c => Stays(d), CalmOf(c)',
         recovering' => recovering, entry'[c] # "pending" \/ entry'[c] = entry[c],
         current' \notin batch'
  PROVE  CalmInv'
<1>1. \A d \in Command : CalmOf(d)'
  BY StaysCalm DEF CalmInv
<1>2. Worker!Claimed' \subseteq Worker!Claimed
  <2> SUFFICES ASSUME NEW d \in Command, entry'[d] = "pending" PROVE entry[d] = "pending"
    BY DEF Worker!Claimed
  <2> QED BY DEF Stays
<1> QED BY <1>1, <1>2 DEF CalmInv

\* The end of a command that was pending.
LEMMA FinishKeepsCalm ==
  ASSUME TypeOK, WriteInv, CalmInv, UNCHANGED serviceVars, faults' = 0, NEW c \in Command,
         \/ Worker!HandleReply
         \/ Worker!FailPending(c) \/ Worker!Timeout(c),
         Worker!HandleReply => AnswerInv
  PROVE  CalmInv'
<1>1. ~Worker!Fault /\ faults = 0
  BY NothingFails, CalmFacts DEF Worker!Fault, Worker!NoFault,
     Worker!HandleReply,
     Worker!FailPending, Worker!Timeout
<1>2. UNCHANGED <<status, claimed, dispatch>>
  BY DEF serviceVars
<1>3. UNCHANGED <<sent, reserved, batch, current, recovering, faults, egress>>
  BY <1>1 DEF Worker!HandleReply, Worker!FailPending, Worker!Timeout,
     Worker!deviceVars,
     Worker!tickVars, Worker!recovery, Worker!NoFault, Worker!egressVars
<1>4. \/ UNCHANGED <<entry, results, pending>>
      \/ \E d \in Command : \E v \in Success \cup {"UNKNOWN"} :
           d \in pending /\ Worker!Finish(d, v)
  <2>1. CASE Worker!FailPending(c) \/ Worker!Timeout(c)
    BY <1>1, <2>1 DEF Worker!FailPending, Worker!Timeout, Worker!Finish
  <2>2. CASE Worker!HandleReply
    <3> DEFINE e == Head(ingress)
    <3>1. e \in Items(ingress) /\ e.kind = "reply"
      BY <2>2, HeadAndTail DEF TypeOK, Worker!CollectorTypeOK,
         Worker!HandleReply
    <3>2. e.command \in Command /\ e.verdict \in Success
      BY <2>2, <3>1 DEF AnswerInv
    <3>3. UNCHANGED <<entry, results, pending>> \/ Worker!Finish(e.command, e.verdict)
      BY <1>1, <2>2 DEF Worker!HandleReply
    <3> HIDE DEF e
    <3> QED BY <3>2, <3>3 DEF Worker!Finish
  <2> QED BY <2>1, <2>2
<1>5. CASE UNCHANGED <<entry, results, pending>>
  <2>1. AllStay
    BY <1>2, <1>3, <1>5 DEF AllStay, Stays
  <2> QED BY <2>1, AllStayCalm
<1>6. ASSUME NEW d \in Command, NEW v \in Success \cup {"UNKNOWN"}, d \in pending,
             Worker!Finish(d, v)
      PROVE  CalmInv'
  <2>1. CalmOf(d) /\ d \in pending /\ entry[d] = "pending" /\ d \in reserved
    BY <1>1, <1>6 DEF CalmInv, CalmOf
  <2>2. /\ entry' = [entry EXCEPT ![d] = "gone"] /\ pending' = pending \ {d}
        /\ results' = results \cup {<<d, v>>}
    BY <1>6, <2>1 DEF Worker!Finish, Worker!Publish, Worker!OwnsEntry
  <2>3. entry'[d] = "gone" /\ \A x \in Command : x # d => entry'[x] = entry[x]
    BY <2>2, CalmFacts
  <2>4. v # "REJECTED"
    BY DEF Success
  <2>5. \A x \in Command : x # d => Stays(x)
    BY <1>2, <1>3, <2>2, <2>3 DEF Stays
  <2>6. CalmOf(d)'
    BY <1>2, <1>3, <2>1, <2>2, <2>3, <2>4 DEF CalmOf, Spared
  <2> QED BY <1>1, <1>3, <2>3, <2>5, <2>6, OneChanges DEF CalmInv
<1> QED BY <1>4, <1>5, <1>6

\* A command that is turned down was not reserved, or not sent.
LEMMA TurnDownKeepsCalm ==
  ASSUME TypeOK, WriteInv, CalmInv, UNCHANGED serviceVars, faults' = 0, NEW c \in Command,
         \/ Worker!RejectStale(c) \/ Worker!RejectExpired(c)
         \/ \E v \in {"REJECTED", "UNKNOWN"} : Worker!Refuse(c, v)
  PROVE  CalmInv'
<1>1. ~Worker!Fault
  BY NothingFails
<1>2. UNCHANGED <<status, claimed, dispatch>>
  BY DEF serviceVars
<1>3. UNCHANGED <<sent, reserved, pending, recovering, faults, egress>>
  BY <1>1 DEF Worker!RejectStale, Worker!RejectExpired,
     Worker!FailUndeliverable,
     Worker!Refuse, Worker!deviceVars, Worker!recovery, Worker!NoFault, Worker!egressVars
<1>4. PICK v \in {"REJECTED", "UNKNOWN"} : Worker!Publish(c, v)
  BY <1>1 DEF Worker!RejectStale, Worker!RejectExpired,
     Worker!FailUndeliverable,
     Worker!Refuse
<1>5. \/ c \in batch /\ current = "none" /\ current' = "none" /\ batch' = batch \ {c}
      \/ current = c /\ current' = "none" /\ batch' = batch
  BY <1>1 DEF Worker!RejectStale, Worker!RejectExpired,
     Worker!FailUndeliverable,
     Worker!Refuse, Worker!None
<1>6. CalmOf(c) /\ entry[c] = "pending" /\ c \notin batch'
  BY <1>3, <1>5 DEF CalmInv, CalmOf
<1>7. sent[c] = 0 /\ c \notin Items(egress) /\ c \notin pending
  BY <1>5, <1>6 DEF CalmOf, WriteInv
<1>8. entry' = [entry EXCEPT ![c] = "gone"] /\ results' = results \cup {<<c, v>>}
  BY <1>4, <1>6 DEF Worker!Publish, Worker!OwnsEntry
<1>9. entry'[c] = "gone" /\ \A x \in Command : x # c => entry'[x] = entry[x]
  BY <1>8, CalmFacts
<1>10. \A x \in Command : x # c => Stays(x)
  BY <1>2, <1>3, <1>5, <1>8, <1>9 DEF Stays
<1>11. CalmOf(c)'
  BY <1>2, <1>3, <1>5, <1>6, <1>7, <1>9 DEF CalmOf, Spared
<1>12. current' \notin batch'
  BY <1>5, WriteFacts DEF TypeOK, Worker!CollectorTypeOK
<1> QED BY <1>3, <1>9, <1>10, <1>11, <1>12, OneChanges

\* A command is reserved once, and is executed then.
LEMMA ReserveKeepsCalm ==
  ASSUME TypeOK, WriteInv, CalmInv, UNCHANGED serviceVars, faults' = 0, NEW c \in Command,
         Worker!Reserve(c)
  PROVE  CalmInv'
<1>1. ~Worker!Fault
  BY NothingFails
<1>2. UNCHANGED <<status, claimed, dispatch>>
  BY DEF serviceVars
<1>3. UNCHANGED <<sent, results, pending, recovering, faults, egress>>
  BY <1>1 DEF Worker!Reserve, Worker!deviceVars, Worker!recovery,
     Worker!NoFault,
     Worker!egressVars
<1>4. c \in batch /\ current = "none" /\ CalmOf(c) /\ c \notin reserved
  BY <1>3 DEF Worker!Reserve, Worker!None, CalmInv, CalmOf
<1>5. /\ entry' = entry /\ reserved' = reserved \cup {c} /\ current' = c
      /\ batch' = batch \ {c}
  BY <1>1, <1>4 DEF Worker!Reserve, Worker!Reserved
<1>6. \A x \in Command : x # c => Stays(x)
  BY <1>2, <1>3, <1>5 DEF Stays
<1>7. CalmOf(c)'
  BY <1>2, <1>3, <1>4, <1>5 DEF CalmOf, Spared
<1> QED BY <1>3, <1>5, <1>6, <1>7, OneChanges

\* A command that is sent is pending, and so is its entry.
LEMMA SendKeepsCalm ==
  ASSUME TypeOK, WriteInv, CalmInv, UNCHANGED serviceVars, faults' = 0, NEW c \in Command,
         Worker!Send(c)
  PROVE  CalmInv'
<1>1. ~Worker!Fault
  BY NothingFails
<1>2. UNCHANGED <<status, claimed, dispatch>>
  BY DEF serviceVars
<1>3. /\ UNCHANGED <<entry, sent, results, reserved, batch, recovering, faults>>
      /\ current = c /\ current' = "none" /\ pending' = pending \cup {c}
      /\ egress' = Append(egress, c)
  BY <1>1 DEF Worker!Send, Worker!linkVars, Worker!deviceVars, Worker!recovery,
     Worker!NoFault, Worker!None
<1>4. CalmOf(c) /\ entry[c] = "pending" /\ c \in reserved
  BY <1>3 DEF CalmInv, CalmOf, WriteInv
<1>5. Items(egress') = Items(egress) \cup {c}
  BY <1>3, CalmFacts, Appended
<1>6. \A x \in Command : x # c => Stays(x)
  BY <1>2, <1>3, <1>5 DEF Stays
<1>7. CalmOf(c)'
  BY <1>2, <1>3, <1>4 DEF CalmOf, Spared
<1>8. current' \notin batch'
  BY <1>3, WriteFacts DEF TypeOK, Worker!CollectorTypeOK
<1> QED BY <1>3, <1>6, <1>7, <1>8, OneChanges

\* What is written was reserved, and not rejected.
LEMMA WriteKeepsCalm ==
  ASSUME TypeOK, WriteInv, CalmInv, UNCHANGED serviceVars, faults' = 0, NEW c \in Command,
         Worker!Write(c)
  PROVE  CalmInv'
<1>1. /\ UNCHANGED <<entry, results, reserved, batch, current, pending, recovering, faults,
                     egress, status, claimed, dispatch>>
      /\ sent' = sent \/ sent' = [sent EXCEPT ![c] = @ + 1]
      /\ writing = c
  BY DEF Worker!Write, Worker!linkVars, Worker!tickVars, Worker!recovery,
     serviceVars
<1>2. CalmOf(c) /\ c \in Items(egress)
  BY <1>1 DEF CalmInv, WriteInv
<1>3. \A x \in Command : x # c => sent'[x] = sent[x]
  BY <1>1, CalmFacts
<1>4. \A x \in Command : x # c => Stays(x)
  BY <1>1, <1>3 DEF Stays
<1>5. CalmOf(c)'
  BY <1>1, <1>2 DEF CalmOf, Spared
<1> QED BY <1>1, <1>4, <1>5, OneChanges DEF CalmInv

\* Entries are read once: those that are new.
LEMMA ReadKeepsCalm ==
  ASSUME TypeOK, WriteInv, CalmInv, UNCHANGED serviceVars, faults' = 0,
         Worker!ReadCommands
  PROVE  CalmInv'
<1>1. ~Worker!Fault
  BY NothingFails
<1>2. /\ UNCHANGED <<status, claimed, dispatch, sent, results, reserved, egress, pending,
                     current, faults>>
      /\ batch = {} /\ current = "none"
  BY <1>1 DEF serviceVars, Worker!ReadCommands, Worker!deviceVars,
     Worker!egressVars,
     Worker!NoFault, Worker!Free, Worker!None
<1>3. CASE /\ recovering /\ batch' = Worker!Claimed
           /\ recovering' = Worker!StillRecovering /\ entry' = entry
  <2>1. batch' = {}
    BY <1>2, <1>3 DEF CalmInv
  <2>2. \A x \in Command : Stays(x)
    BY <1>2, <1>3, <2>1 DEF Stays
  <2>3. \A x \in Command : CalmOf(x)'
    BY <1>2, <2>2, StaysCalm DEF CalmInv
  <2>4. Worker!Claimed' = {}
    BY <1>2, <1>3 DEF CalmInv, Worker!Claimed
  <2> QED BY <1>2, <2>1, <2>3, <2>4 DEF CalmInv
<1>4. CASE /\ ~recovering /\ batch' = Worker!Queued /\ Worker!Deliver(Worker!Queued)
           /\ recovering' = recovering
  <2>1. \A x \in Command :
          entry'[x] = IF entry[x] = "queued" THEN "pending" ELSE entry[x]
    BY <1>4 DEF Worker!Deliver, Worker!Queued
  <2>2. \A x \in Command : x \in batch' <=> entry[x] = "queued"
    BY <1>4 DEF Worker!Queued
  <2>3. \A x \in Command : CalmOf(x)
    BY <1>2 DEF CalmInv
  <2>4. ASSUME NEW x \in Command, entry[x] # "queued" PROVE CalmOf(x)'
    <3>1. Stays(x)
      BY <1>2, <2>1, <2>2, <2>4 DEF Stays
    <3> QED BY <2>3, <3>1, StaysCalm
  <2>5. ASSUME NEW x \in Command, entry[x] = "queued" PROVE CalmOf(x)'
    <3>1. entry'[x] = "pending" /\ x \in batch' /\ current' # x
      BY <1>2, <2>1, <2>2, <2>5, WriteFacts
    <3> QED BY <1>2, <2>3, <2>5, <3>1 DEF CalmOf, Spared
  <2>6. current' \notin batch'
    BY <1>2, <1>4, WriteFacts DEF Worker!Queued
  <2> QED BY <1>4, <2>4, <2>5, <2>6 DEF CalmInv
<1> QED BY <1>1, <1>3, <1>4 DEF Worker!ReadCommands, Worker!recovery

\* The service: a row is rejected when its command is out of every queue.
LEMMA ServiceKeepsCalm ==
  ASSUME TypeOK, WriteInv, CalmInv, NEW c \in Command, Submit(c) \/ ServiceStep(c)
  PROVE  CalmInv'
<1> SUFFICES ASSUME faults' = 0 PROVE CalmInv'
  BY DEF CalmInv
<1>1. ~Service!Fault
  BY NothingFails
<1>2. UNCHANGED workerVars
  BY DEF Submit, ServiceStep
<1>3. faults' = faults
  BY <1>1 DEF Submit, ServiceStep, Service!ServiceStep, Service!Submit,
     Service!Deadline,
     Service!Claim, Service!Enqueue, Service!RecordOutcome, Service!Expire,
     Service!Project, Service!NoFault
<1>4. CalmOf(c) /\ current \notin batch
  BY <1>3 DEF CalmInv
<1>5. c \notin reserved => sent[c] = 0 /\ c \notin Items(egress) /\ current # c
  BY DEF WriteInv
<1>6. /\ \A d \in Command : d # c => /\ entry'[d] = entry[d] /\ dispatch'[d] = dispatch[d]
                                     /\ status'[d] = status[d] /\ claimed'[d] = claimed[d]
      /\ results' \subseteq results
      /\ entry'[c] # "pending" \/ entry'[c] = entry[c]
      /\ CalmOf(c)'
  <2>1. CASE Submit(c)
    <3>1. /\ status[c] = "none" /\ status' = [status EXCEPT ![c] = "ACCEPTED"]
          /\ UNCHANGED <<claimed, dispatch, entry, results>>
      BY <2>1 DEF Submit, Service!Submit, Service!linkVars
    <3> QED BY <1>2, <1>4, <3>1, CalmFacts DEF CalmOf, Spared, workerVars
  <2>2. CASE Service!Deadline(c)
    <3>1. UNCHANGED <<status, claimed, dispatch, entry, results>>
      BY <2>2 DEF Service!Deadline, Service!linkVars
    <3> QED BY <1>2, <1>4, <3>1 DEF CalmOf, Spared, workerVars
  <2>3. CASE Service!Claim(c)
    <3>1. /\ status[c] = "ACCEPTED" /\ status' = [status EXCEPT ![c] = "DISPATCHING"]
          /\ claimed' = [claimed EXCEPT ![c] = TRUE]
          /\ dispatch' = [dispatch EXCEPT ![c] = "enqueue"]
          /\ UNCHANGED <<entry, results>>
      BY <1>1, <2>3 DEF Service!Claim, Service!Claimable, Service!linkVars
    <3> QED BY <1>2, <1>4, <3>1, CalmFacts DEF CalmOf, Spared, workerVars
  <2>4. CASE Service!Enqueue(c)
    <3>1. /\ dispatch[c] = "enqueue" /\ UNCHANGED <<status, claimed, results>>
          /\ \/ /\ Service!Push(c)
                /\ dispatch' = [dispatch EXCEPT ![c] = "published"]
             \/ entry' = entry /\ dispatch' = [dispatch EXCEPT ![c] = "full"]
      BY <1>1, <2>4 DEF Service!Enqueue
    <3> QED BY <1>2, <1>4, <3>1, CalmFacts DEF CalmOf, Spared, Service!Push,
               workerVars
  <2>5. CASE Service!RecordOutcome(c)
    <3>1. /\ dispatch[c] \in {"published", "full", "failed"}
          /\ dispatch' = [dispatch EXCEPT ![c] = "none"]
          /\ \/ status' = status
             \/ /\ status[c] = "DISPATCHING"
                /\ \/ status' = [status EXCEPT ![c] = "AWAITING_RESULT"]
                   \/ status' = [status EXCEPT ![c] = "UNKNOWN"]
                   \/ /\ dispatch[c] = "full"
                      /\ status' = [status EXCEPT ![c] = "REJECTED"]
          /\ UNCHANGED <<claimed, entry, results>>
      BY <1>1, <2>5 DEF Service!RecordOutcome, Service!Record,
         Service!NextStatus,
         Service!StillDispatching, Service!linkVars
    <3> QED BY <1>2, <1>4, <1>5, <3>1, CalmFacts DEF CalmOf, Spared, workerVars
  <2>6. CASE Service!Expire(c)
    <3>1. /\ status[c] \in Service!Open
          /\ \/ claimed[c] /\ status' = [status EXCEPT ![c] = "UNKNOWN"]
             \/ ~claimed[c] /\ status' = [status EXCEPT ![c] = "REJECTED"]
          /\ UNCHANGED <<claimed, dispatch, entry, results>>
      BY <2>6 DEF Service!Expire, Service!Overdue, Service!ExpiredState,
         Service!linkVars
    <3> QED BY <1>2, <1>4, <1>5, <3>1, CalmFacts DEF CalmOf, Spared, workerVars
  <2>7. ASSUME NEW v \in Service!Terminal, Service!Project(c, v)
        PROVE  /\ \A d \in Command : d # c => status'[d] = status[d]
               /\ UNCHANGED <<claimed, dispatch, entry>> /\ results' \subseteq results
               /\ CalmOf(c)'
    <3>1. /\ <<c, v>> \in results /\ results' \subseteq results
          /\ status' = status \/ status' = [status EXCEPT ![c] = v]
          /\ UNCHANGED <<claimed, dispatch, entry>>
      BY <2>7 DEF Service!Project
    <3> QED BY <1>2, <1>4, <3>1, CalmFacts DEF CalmOf, Spared, workerVars,
            Service!Terminal
  <2> QED BY <2>1, <2>2, <2>3, <2>4, <2>5, <2>6, <2>7 DEF ServiceStep,
             Service!ServiceStep
<1>7. \A d \in Command : d # c => Stays(d)
  BY <1>2, <1>6 DEF Stays, workerVars
<1> QED BY <1>2, <1>3, <1>4, <1>6, <1>7, OneChanges DEF workerVars

\* Each step keeps the calm.
LEMMA CalmKept ==
  ASSUME CommandInv, Next PROVE CalmInv'
<1> USE DEF CommandInv
<1>1. ASSUME NEW c \in Command, Submit(c) \/ ServiceStep(c) PROVE CalmInv'
  BY <1>1, ServiceKeepsCalm
<1>2. CASE Crash
  <2>1. faults' # 0
    BY <1>2, NothingFails DEF Crash, Worker!Crash
  <2> QED BY <2>1 DEF CalmInv
<1>3. CASE WorkerStep
  <2>1. UNCHANGED serviceVars /\ Worker!CollectorStep
    BY <1>3 DEF WorkerStep
  <2> SUFFICES ASSUME faults' = 0 PROVE CalmInv'
    BY DEF CalmInv
  <2>2. ASSUME AllStay PROVE CalmInv'
    BY <2>2, AllStayCalm
  <2>3. ASSUME NEW c \in Command,
               \/ Worker!FailPending(c) \/ Worker!Timeout(c)
               \/ Worker!RejectStale(c) \/ Worker!RejectExpired(c)
               \/ (\E v \in {"REJECTED", "UNKNOWN"} : Worker!Refuse(c, v))
               \/ Worker!Reserve(c) \/ Worker!Send(c) \/ Worker!Write(c)
        PROVE  CalmInv'
    BY <2>1, <2>3, FinishKeepsCalm, TurnDownKeepsCalm, ReserveKeepsCalm,
       SendKeepsCalm,
       WriteKeepsCalm
  <2>4. CASE Worker!HandleReply
    <3>1. PICK c \in Command : TRUE
      BY <2>4, HeadAndTail DEF TypeOK, Worker!CollectorTypeOK,
         Worker!HandleReply, AnswerInv
    <3> QED BY <2>1, <2>4, <3>1, FinishKeepsCalm
  <2>5. CASE Worker!ReadCommands
    BY <2>1, <2>5, ReadKeepsCalm
  <2> QED BY <2>1, <2>2, <2>3, <2>4, <2>5, CommandsStay
             DEF Worker!CollectorStep, Success
<1> QED BY <1>1, <1>2, <1>3 DEF Next

-----------------------------------------------------------------------------
(* Theorems                                                                *)

\* In the beginning there is nothing.
LEMMA CommandInit == Init => CommandInv
<1> SUFFICES ASSUME Init PROVE CommandInv
  OBVIOUS
<1> USE DEF Init, Service!ServiceInit, Service!LinkInit, Worker!CollectorInit, Worker!None
<1>1. TypeOK
  <2>1. MaxSession \in Nat /\ MaxFaults \in Nat
    OBVIOUS
  <2>2. Service!ServiceTypeOK
    BY <2>1 DEF Service!ServiceTypeOK, Service!Open, Service!Terminal
  <2>3. LinkTypes /\ DeviceTypes /\ TickTypes
    BY <2>1 DEF LinkTypes, DeviceTypes, TickTypes
  <2>4. StreamTypes /\ PacketTypes
    BY NoItems DEF StreamTypes, PacketTypes
  <2> QED BY <2>2, <2>3, <2>4 DEF TypeOK, Worker!CollectorTypeOK, LinkTypes,
             DeviceTypes,
          TickTypes, StreamTypes, PacketTypes
<1>2. AnswerInv
  BY NoItems DEF AnswerInv, OutcomeIsReal, Success
<1>3. WriteInv
  BY NoItems DEF WriteInv, RewritesAreFaults
<1>4. CalmInv
  BY NoItems DEF CalmInv, CalmOf, Worker!Claimed
<1> QED BY <1>1, <1>2, <1>3, <1>4 DEF CommandInv

\* Each step keeps the invariant.
LEMMA CommandStep == CommandInv /\ [Next]_vars => CommandInv'
<1> SUFFICES ASSUME CommandInv, [Next]_vars PROVE CommandInv'
  OBVIOUS
<1>1. CASE Next
  BY <1>1, TypesKept, AnswersKept, WritesKept, CalmKept DEF CommandInv
<1>2. CASE UNCHANGED vars
  <2> USE <1>2 DEF CommandInv, vars, serviceVars, workerVars
  <2>1. TypeOK'
    BY DEF TypeOK, Service!ServiceTypeOK, Worker!CollectorTypeOK, Worker!Events
  <2>2. AnswerInv'
    BY DEF AnswerInv, OutcomeIsReal
  <2>3. WriteInv'
    BY DEF WriteInv, RewritesAreFaults
  <2>4. AllStay
    BY DEF AllStay, Stays
  <2> QED BY <2>1, <2>2, <2>3, <2>4, AllStayCalm
<1> QED BY <1>1, <1>2

\* CommandInv is an invariant.
LEMMA CommandInvariant == Spec => []CommandInv
BY CommandInit, CommandStep, PTL DEF Spec

\* The device speaks for itself: an operation is recorded as SUCCEEDED or FAILED only
\* if that is what the device has answered to it, for any number of commands,
\* sessions and failures.
THEOREM OutcomesAreReal == Spec => []OutcomeIsReal
<1>1. CommandInv => OutcomeIsReal
  BY DEF CommandInv, AnswerInv
<1> QED BY <1>1, CommandInvariant, PTL

\* A command is written once, and again only for an acknowledgement that has failed;
\* as long as no store fails, what is in flight can report its result, and what is
\* rejected is never written.
THEOREM CommandsAreSafe == Spec => []CommandSafety
<1>1. CommandInv => CommandSafety
  <2> SUFFICES ASSUME CommandInv PROVE CommandSafety
    OBVIOUS
  <2>1. TypeOK /\ RewritesAreFaults
    BY DEF CommandInv, WriteInv
  <2>2. PendingCanReport
    BY DEF CommandInv, CalmInv, CalmOf, PendingCanReport, TypeOK,
       Worker!CollectorTypeOK
  <2>3. RejectionsAreHonest
    BY DEF CommandInv, CalmInv, CalmOf, Spared, RejectionsAreHonest,
       RejectedNeverWritten
  <2> QED BY <2>1, <2>2, <2>3 DEF CommandSafety
<1> QED BY <1>1, CommandInvariant, PTL

\* An outcome stays as it is, whoever else writes the row; only UNKNOWN may still
\* become a success.
THEOREM SettledStays == Spec => SettledForGood
<1> DEFINE Final == \A c \in Command :
             status[c] \in Service!Terminal
               => \/ status'[c] = status[c]
                  \/ status[c] = "UNKNOWN" /\ status'[c] = "SUCCEEDED"
<1>1. TypeOK /\ [Next]_vars => [Final]_vars
  <2> SUFFICES ASSUME TypeOK, Next PROVE Final
    OBVIOUS
  <2>1. status \in [Command -> {"none"} \cup Service!Open \cup Service!Terminal]
    BY CalmFacts
  <2>2. ASSUME NEW c \in Command, Submit(c) \/ ServiceStep(c)
        PROVE  /\ \A d \in Command : d # c => status'[d] = status[d]
               /\ \/ status'[c] = status[c]
                  \/ status[c] \notin Service!Terminal
                  \/ status[c] = "UNKNOWN" /\ status'[c] = "SUCCEEDED"
    <3> USE DEF Service!Open, Service!Terminal
    <3>1. CASE Submit(c)
      BY <2>1, <3>1 DEF Submit, Service!Submit
    <3>2. CASE Service!Deadline(c) \/ Service!Enqueue(c)
      BY <3>2 DEF Service!Deadline, Service!Enqueue
    <3>3. CASE Service!Claim(c)
      BY <2>1, <3>3 DEF Service!Claim, Service!Claimable
    <3>4. CASE Service!RecordOutcome(c)
      BY <2>1, <3>4 DEF Service!RecordOutcome, Service!Record,
         Service!StillDispatching
    <3>5. CASE Service!Expire(c)
      BY <2>1, <3>5 DEF Service!Expire, Service!Overdue
    <3>6. ASSUME NEW v \in Service!Terminal, Service!Project(c, v)
          PROVE  /\ \A d \in Command : d # c => status'[d] = status[d]
                 /\ \/ status'[c] = status[c]
                    \/ status[c] \notin Service!Terminal
                    \/ status[c] = "UNKNOWN" /\ status'[c] = "SUCCEEDED"
      BY <2>1, <3>6 DEF Service!Project, Service!Accepts
    <3> QED BY <2>2, <3>1, <3>2, <3>3, <3>4, <3>5, <3>6
            DEF ServiceStep, Service!ServiceStep
  <2>3. CASE WorkerStep \/ Crash
    BY <2>3 DEF WorkerStep, Crash, serviceVars
  <2> QED BY <2>2, <2>3 DEF Next
<1>2. CommandInv => TypeOK
  BY DEF CommandInv
<1> QED BY <1>1, <1>2, CommandInvariant, PTL DEF Spec, SettledForGood
=============================================================================
