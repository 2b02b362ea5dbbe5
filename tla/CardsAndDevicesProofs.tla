------------------------ MODULE CardsAndDevicesProofs ------------------------
(***************************************************************************)
(* Proofs about what lets people punch and who sees it: the punches of a   *)
(* device (DevicePunches), the cards and assignments of employees          *)
(* (Employment), who may see an employee (Visibility), and the periods     *)
(* that are summed up for one (Periods).                                   *)
(*                                                                         *)
(* Devices, for any number of producers, so also for `queue` beside        *)
(* `station`, and any number of punches: whatever numbers the device gives *)
(* out, the server records each punch at most once and in the order of the *)
(* numbers, and the sender removes as accepted only what was recorded.     *)
(*                                                                         *)
(* Cards: of the transactions that registered a token, the one that marked *)
(* it has it alone; the others are still to find it marked.  And no card   *)
(* changes its token, so that there is one for each token that is used.    *)
(*                                                                         *)
(* Visibility: the table keeps the assignments of an employee apart, so    *)
(* that one counts on a date; and the overlap of two periods is one that   *)
(* lasts for some date, so that comparing the ends of both with a range    *)
(* says the same as comparing their overlap with it.                       *)
(*                                                                         *)
(* Periods: whether a week begins on a date does not depend on the range,  *)
(* and a week ends before the next one begins.  Settlements begin in       *)
(* months that are apart, so that a date lies in one of them, and the      *)
(* guess from the months is that one or the next.                          *)
(***************************************************************************)
EXTENDS DevicePunches, Visibility, SequenceTheorems, FiniteSetTheorems, WellFoundedInduction,
        TLAPS

-----------------------------------------------------------------------------
(***************************************************************************)
(* Punches of a device.                                                    *)
(***************************************************************************)
\* A punch has one producer, which has given it no number before it saves one.
ProducersApart ==
  /\ \A p \in Producers : pc[p] # "idle" => held[p] \in Punches
  /\ \A p \in Producers : pc[p] = "idle" => held[p] = NoPunch
  /\ \A p, q \in Producers : held[p] = held[q] /\ held[p] \in Punches => p = q
  /\ \A p \in Producers : pc[p] = "loaded" => sequence[held[p]] = 0 /\ read[p] > 0
  /\ \A p \in Producers : pc[p] \in {"numbered", "listed"} => sequence[held[p]] > 0

\* A punch that has no number yet is nowhere but with its producer.
NumberedFirst ==
  \A x \in Punches : sequence[x] = 0 =>
    /\ prefix[x] = 0
    /\ x \notin batch
    /\ \A stage \in Stages : <<x, stage>> \notin requests

\* Everything that is recorded has a number, none above the last one accepted.
RecordedBelowLast ==
  \A i \in DOMAIN recorded : sequence[recorded[i]] \in 1 .. lastSequence

\* Only what is recorded was ever answered as accepted.
IsRecorded(x) == \E i \in DOMAIN recorded : recorded[i] = x

AcceptedIsRecorded ==
  /\ \A x \in Punches : receipts[x] = "accepted" => IsRecorded(x)
  /\ answer = "accepted" => IsRecorded(awaited)
  /\ awaited = NoPunch => answer = "none"
  /\ \A x \in sent : IsRecorded(x)

DInv ==
  /\ TypeOK
  /\ ProducersApart
  /\ NumberedFirst
  /\ RecordedBelowLast
  /\ RecordedInOrder
  /\ AcceptedIsRecorded

LEMMA InitDInv == Init => DInv
<1> SUFFICES ASSUME Init PROVE DInv
  OBVIOUS
<1> USE DEF Init
<1>1. TypeOK
  BY DEF TypeOK, Answers, Receipts
<1>2. ProducersApart /\ NumberedFirst
  BY DeviceAssumption DEF DeviceAssumption, ProducersApart, NumberedFirst
<1>3. RecordedBelowLast /\ RecordedInOrder /\ AcceptedIsRecorded
  BY DEF RecordedBelowLast, RecordedInOrder, AcceptedIsRecorded
<1> QED
  BY <1>1, <1>2, <1>3 DEF DInv

\* What is recorded stays as it is while neither it nor its numbers change.
LEMMA RecordedStays ==
  ASSUME DInv, UNCHANGED <<lastSequence, receipts, recorded>>,
         \A x \in Punches : sequence[x] # 0 => sequence'[x] = sequence[x]
  PROVE  RecordedBelowLast' /\ RecordedInOrder'
<1>1. \A i \in DOMAIN recorded : recorded[i] \in Punches /\ sequence[recorded[i]] # 0
  BY DEF DInv, TypeOK, RecordedBelowLast
<1>2. \A i \in DOMAIN recorded : sequence'[recorded[i]] = sequence[recorded[i]]
  BY <1>1
<1> QED
  BY <1>2 DEF DInv, RecordedBelowLast, RecordedInOrder

-----------------------------------------------------------------------------
LEMMA ProduceDInv == ASSUME DInv, NEW p \in Producers, Produce(p) PROVE DInv'
<1> USE DEF DInv, senderVars, serverVars, producerVars
<1>a. NoPunch \notin Punches
  BY DeviceAssumption DEF DeviceAssumption
<1>1. ASSUME NEW x \in Punches, LoadCredentials(p, x) PROVE DInv'
  <2> USE <1>1 DEF LoadCredentials
  <2>1. TypeOK'
    BY DEF TypeOK
  <2>2. ProducersApart'
    BY <1>a DEF ProducersApart, TypeOK
  <2>3. NumberedFirst' /\ AcceptedIsRecorded'
    BY DEF NumberedFirst, AcceptedIsRecorded, IsRecorded
  <2>4. RecordedBelowLast' /\ RecordedInOrder'
    BY RecordedStays
  <2> QED
    BY <2>1, <2>2, <2>3, <2>4
<1>2. CASE SaveCredentials(p)
  <2> USE <1>2 DEF SaveCredentials
  <2>0. held[p] \in Punches /\ sequence[held[p]] = 0 /\ read[p] > 0 /\ read[p] \in Nat
    BY DEF ProducersApart, TypeOK
  <2>1. TypeOK'
    BY <2>0 DEF TypeOK
  <2>2. ProducersApart'
    BY <2>0 DEF ProducersApart, TypeOK
  <2>3. NumberedFirst'
    BY <2>0 DEF NumberedFirst, TypeOK
  <2>4. RecordedBelowLast' /\ RecordedInOrder'
    <3>1. \A x \in Punches : sequence[x] # 0 => sequence'[x] = sequence[x]
      BY <2>0 DEF TypeOK
    <3> QED
      BY <3>1, RecordedStays
  <2>5. AcceptedIsRecorded'
    BY DEF AcceptedIsRecorded, IsRecorded
  <2> QED
    BY <2>1, <2>2, <2>3, <2>4, <2>5
<1>3. CASE ListDirectory(p)
  <2> USE <1>3 DEF ListDirectory
  <2>0. PICK n \in Nat : read' = [read EXCEPT ![p] = n]
    BY DEF TypeOK, Pending
  <2>1. TypeOK'
    <3>1. read' \in [Producers -> Nat]
      BY <2>0 DEF TypeOK
    <3>2. pc' \in [Producers -> {"idle", "loaded", "numbered", "listed"}]
      BY DEF TypeOK
    <3> QED
      BY <3>1, <3>2 DEF TypeOK
  <2>2. ProducersApart'
    BY DEF ProducersApart, TypeOK
  <2>3. NumberedFirst' /\ AcceptedIsRecorded'
    BY DEF NumberedFirst, AcceptedIsRecorded, IsRecorded
  <2>4. RecordedBelowLast' /\ RecordedInOrder'
    BY RecordedStays
  <2> QED
    BY <2>1, <2>2, <2>3, <2>4
<1>4. CASE Add(p)
  <2> USE <1>4 DEF Add
  <2>0. held[p] \in Punches /\ sequence[held[p]] > 0
    BY DEF ProducersApart
  <2>1. TypeOK'
    <3>1. read[p] + 1 \in Nat
      BY DEF TypeOK
    <3>2. prefix' \in [Punches -> Nat]
      BY <3>1 DEF TypeOK
    <3> QED
      BY <3>2 DEF TypeOK
  <2>2. ProducersApart'
    BY <1>a DEF ProducersApart, TypeOK
  <2>3. NumberedFirst' /\ AcceptedIsRecorded'
    BY <2>0 DEF NumberedFirst, AcceptedIsRecorded, IsRecorded, TypeOK
  <2>4. RecordedBelowLast' /\ RecordedInOrder'
    BY RecordedStays
  <2> QED
    BY <2>1, <2>2, <2>3, <2>4
<1>5. CASE ProducerCrash(p)
  <2> USE <1>5 DEF ProducerCrash
  <2>1. TypeOK'
    BY DEF TypeOK
  <2>2. ProducersApart'
    BY <1>a DEF ProducersApart, TypeOK
  <2>3. NumberedFirst' /\ AcceptedIsRecorded'
    BY DEF NumberedFirst, AcceptedIsRecorded, IsRecorded
  <2>4. RecordedBelowLast' /\ RecordedInOrder'
    BY RecordedStays
  <2> QED
    BY <2>1, <2>2, <2>3, <2>4
<1> QED
  BY <1>1, <1>2, <1>3, <1>4, <1>5 DEF Produce

\* The disk and the sender: the numbers and what is recorded stay.
LEMMA FlushDInv == ASSUME DInv, Flush \/ \E x \in Punches : Tear(x) PROVE DInv'
<1> USE DEF DInv, producerVars, serverVars
<1>0. ASSUME UNCHANGED <<producerVars, serverVars>> PROVE RecordedBelowLast' /\ RecordedInOrder'
  BY <1>0, RecordedStays
<1>1. CASE List
  <2> USE <1>1 DEF List
  <2>1. TypeOK'
    BY DEF TypeOK, Pending
  <2>2. ProducersApart' /\ NumberedFirst' /\ AcceptedIsRecorded'
    BY DEF ProducersApart, NumberedFirst, AcceptedIsRecorded, IsRecorded, TypeOK, Pending
  <2> QED
    BY <1>0, <2>1, <2>2
<1>2. CASE FlushPaused
  <2> USE <1>2 DEF FlushPaused
  <2>1. TypeOK'
    BY DEF TypeOK, Answers
  <2>2. ProducersApart' /\ NumberedFirst' /\ AcceptedIsRecorded'
    BY DEF ProducersApart, NumberedFirst, AcceptedIsRecorded, IsRecorded
  <2> QED
    BY <1>0, <2>1, <2>2
<1>3. ASSUME NEW x \in Punches, Send(x) PROVE DInv'
  <2> USE <1>3 DEF Send
  <2>0. x \in batch /\ sequence[x] # 0
    BY DEF IsFirst, NumberedFirst
  <2>1. TypeOK'
    BY DEF TypeOK, Stages
  <2>2. ProducersApart' /\ NumberedFirst'
    BY <2>0 DEF ProducersApart, NumberedFirst
  <2>3. AcceptedIsRecorded'
    BY DEF AcceptedIsRecorded, IsRecorded, TypeOK
  <2> QED
    BY <1>0, <2>1, <2>2, <2>3
<1>4. ASSUME NEW x \in Punches, RemoveSpooled(x) PROVE DInv'
  <2> USE <1>4 DEF RemoveSpooled
  <2>1. TypeOK'
    BY DEF TypeOK, Answers
  <2>2. ProducersApart' /\ NumberedFirst'
    BY DEF ProducersApart, NumberedFirst, TypeOK
  <2>3. AcceptedIsRecorded'
    BY DEF AcceptedIsRecorded, IsRecorded
  <2> QED
    BY <1>0, <2>1, <2>2, <2>3
<1>5. ASSUME NEW x \in Punches, Tear(x) PROVE DInv'
  <2> USE <1>5 DEF Tear, senderVars
  <2>1. TypeOK'
    BY DEF TypeOK
  <2>2. ProducersApart' /\ NumberedFirst' /\ AcceptedIsRecorded'
    BY DEF ProducersApart, NumberedFirst, AcceptedIsRecorded, IsRecorded
  <2> QED
    BY <1>0, <2>1, <2>2
<1> QED
  BY <1>1, <1>2, <1>3, <1>4, <1>5 DEF Flush

-----------------------------------------------------------------------------
(* The server.                                                             *)

\* A request that is answered leaves the device as it was, but for the answer.
LEMMA ReplyKeeps ==
  ASSUME DInv, NEW x \in Punches, NEW stage \in Stages, NEW a \in Answers, Reply(x, stage, a)
  PROVE  /\ requests' \subseteq requests
         /\ answer' \in Answers
         /\ (awaited = NoPunch => answer' = answer)
         /\ (answer' = answer \/ (awaited = x /\ answer' = a))
         /\ UNCHANGED <<producerVars, prefix, torn, unreadable, batch, awaited, sent, dropped>>
  BY DeviceAssumption DEF Reply, DInv, TypeOK, DeviceAssumption

\* A request is answered without being recorded, and if as accepted, it was recorded before.
LEMMA AnswerDInv ==
  ASSUME DInv, NEW x \in Punches, NEW stage \in Stages, NEW a \in Answers, Reply(x, stage, a),
         a = "accepted" => receipts[x] = "accepted",
         UNCHANGED <<active, lastSequence, recorded>>,
         receipts' = receipts
           \/ \E r \in {"rejected", "replay"} : receipts' = [receipts EXCEPT ![x] = r]
  PROVE  DInv'
<1> USE DEF DInv, producerVars
<1>0. /\ requests' \subseteq requests /\ answer' \in Answers
      /\ (awaited = NoPunch => answer' = answer)
      /\ (answer' = answer \/ (awaited = x /\ answer' = a))
      /\ UNCHANGED <<producerVars, prefix, torn, unreadable, batch, awaited, sent, dropped>>
  BY ReplyKeeps
<1>1. TypeOK'
  <2>1. receipts' \in [Punches -> Receipts]
    BY DEF TypeOK, Receipts
  <2> QED
    BY <1>0, <2>1 DEF TypeOK
<1>2. ProducersApart' /\ NumberedFirst'
  BY <1>0 DEF ProducersApart, NumberedFirst
<1>3. RecordedBelowLast' /\ RecordedInOrder'
  BY <1>0 DEF RecordedBelowLast, RecordedInOrder
<1>4. AcceptedIsRecorded'
  BY <1>0 DEF AcceptedIsRecorded, IsRecorded, TypeOK
<1> QED
  BY <1>1, <1>2, <1>3, <1>4

\* The one step that records.
LEMMA AcceptDInv == ASSUME DInv, NEW x \in Punches, Accept(x) PROVE DInv'
<1> USE DEF DInv, producerVars
<1>a. "authenticated" \in Stages /\ "accepted" \in Answers
  BY DEF Stages, Answers
<1>0. /\ requests' \subseteq requests /\ answer' \in Answers
      /\ (awaited = NoPunch => answer' = answer)
      /\ (answer' = answer \/ (awaited = x /\ answer' = "accepted"))
      /\ UNCHANGED <<producerVars, prefix, torn, unreadable, batch, awaited, sent, dropped>>
  <2>1. Reply(x, "authenticated", "accepted")
    BY DEF Accept
  <2> HIDE DEF DInv
  <2> QED
    BY <1>a, <2>1, ReplyKeeps
<1>1. /\ sequence[x] \in Nat /\ lastSequence \in Nat /\ sequence[x] > lastSequence
      /\ lastSequence' = sequence[x] /\ sequence' = sequence
  BY <1>0 DEF Accept, IsReplay, TypeOK
<1>2. /\ recorded' = Append(recorded, x) /\ recorded \in Seq(Punches)
      /\ Len(recorded') = Len(recorded) + 1
      /\ recorded' \in Seq(Punches)
      /\ \A i \in 1 .. Len(recorded) : recorded'[i] = recorded[i]
      /\ recorded'[Len(recorded) + 1] = x
  BY AppendProperties DEF Accept, TypeOK
<1>3. TypeOK'
  <2>1. receipts' \in [Punches -> Receipts]
    BY DEF Accept, TypeOK, Receipts
  <2> QED
    BY <1>0, <1>1, <1>2, <2>1 DEF TypeOK, Accept
<1>4. ProducersApart' /\ NumberedFirst'
  BY <1>0 DEF ProducersApart, NumberedFirst
<1>5. RecordedBelowLast'
  <2>1. ASSUME NEW i \in DOMAIN recorded' PROVE sequence'[recorded'[i]] \in 1 .. lastSequence'
    <3>1. CASE i \in DOMAIN recorded
      <4>1. sequence[recorded[i]] \in 1 .. lastSequence /\ recorded'[i] = recorded[i]
        BY <1>2, <3>1 DEF RecordedBelowLast
      <4> QED
        BY <1>1, <4>1
    <3>2. CASE i = Len(recorded) + 1
      BY <1>1, <1>2, <3>2
    <3> QED
      BY <1>2, <3>1, <3>2
  <2> QED
    BY <2>1 DEF RecordedBelowLast
<1>6. RecordedInOrder'
  <2>1. ASSUME NEW i \in DOMAIN recorded', NEW j \in DOMAIN recorded', i < j
        PROVE  sequence'[recorded'[i]] < sequence'[recorded'[j]]
    <3>1. i \in DOMAIN recorded /\ recorded'[i] = recorded[i]
      BY <1>2, <2>1
    <3>2. CASE j \in DOMAIN recorded
      <4>1. recorded'[j] = recorded[j]
        BY <1>2, <3>2
      <4> QED
        BY <1>1, <2>1, <3>1, <3>2, <4>1 DEF RecordedInOrder
    <3>3. CASE j = Len(recorded) + 1
      <4>1. sequence[recorded[i]] \in 1 .. lastSequence
        BY <3>1 DEF RecordedBelowLast
      <4> QED
        BY <1>1, <1>2, <3>1, <3>3, <4>1
    <3> QED
      BY <1>2, <3>2, <3>3
  <2> QED
    BY <2>1 DEF RecordedInOrder
<1>7. AcceptedIsRecorded'
  <2>1. \A y : IsRecorded(y) => IsRecorded(y)'
    BY <1>2 DEF IsRecorded
  <2>2. IsRecorded(x)'
    BY <1>2 DEF IsRecorded
  <2>3. \A y \in Punches \ {x} : receipts'[y] = receipts[y]
    BY DEF Accept, TypeOK
  <2> QED
    BY <1>0, <2>1, <2>2, <2>3 DEF AcceptedIsRecorded, TypeOK
<1> QED
  BY <1>3, <1>4, <1>5, <1>6, <1>7

LEMMA ServeDInv == ASSUME DInv, NEW x \in Punches, Serve(x) PROVE DInv'
<1> USE DEF serverVars
<1>a. /\ Stages = {"arrived", "authenticated"}
      /\ {"accepted", "rejected", "retry"} \subseteq Answers
  BY DEF Stages, Answers
<1>1. CASE Authenticate(x)
  <2> USE <1>1 DEF Authenticate, DInv, producerVars, senderVars
  <2>1. TypeOK'
    BY DEF TypeOK, Stages
  <2>2. ProducersApart' /\ NumberedFirst'
    BY DEF ProducersApart, NumberedFirst, Stages
  <2>3. RecordedBelowLast' /\ RecordedInOrder' /\ AcceptedIsRecorded'
    BY DEF RecordedBelowLast, RecordedInOrder, AcceptedIsRecorded, IsRecorded
  <2> QED
    BY <2>1, <2>2, <2>3
<1>2. CASE Refuse(x)
  BY <1>a, <1>2, AnswerDInv DEF Refuse
<1>3. CASE AnswerFromReceipt(x)
  <2>1. CASE receipts[x] = "accepted"
    BY <1>a, <1>3, <2>1, AnswerDInv DEF AnswerFromReceipt
  <2>2. CASE receipts[x] # "accepted"
    BY <1>a, <1>3, <2>2, AnswerDInv DEF AnswerFromReceipt
  <2> QED
    BY <2>1, <2>2
<1>4. CASE RejectReplay(x)
  BY <1>a, <1>4, AnswerDInv DEF RejectReplay
<1>5. CASE RejectPunch(x)
  BY <1>a, <1>5, AnswerDInv DEF RejectPunch
<1>6. CASE Accept(x)
  BY <1>6, AcceptDInv
<1>7. CASE ServerError(x)
  BY <1>a, <1>7, AnswerDInv DEF ServerError
<1> QED
  BY <1>1, <1>2, <1>3, <1>4, <1>5, <1>6, <1>7 DEF Serve, Decide

LEMMA StepDInv == DInv /\ [Next]_vars => DInv'
<1> SUFFICES ASSUME DInv, [Next]_vars PROVE DInv'
  OBVIOUS
<1>1. CASE Revoke
  BY <1>1 DEF Revoke, DInv, TypeOK, ProducersApart, NumberedFirst, RecordedBelowLast,
              RecordedInOrder, AcceptedIsRecorded, IsRecorded, producerVars, senderVars
<1>2. CASE UNCHANGED vars
  BY <1>2 DEF DInv, TypeOK, ProducersApart, NumberedFirst, RecordedBelowLast, RecordedInOrder,
              AcceptedIsRecorded, IsRecorded, vars, producerVars, senderVars, serverVars
<1> QED
  BY <1>1, <1>2, ProduceDInv, FlushDInv, ServeDInv DEF Next

LEMMA AlwaysDInv == Spec => []DInv
  BY InitDInv, StepDInv, PTL DEF Spec

-----------------------------------------------------------------------------
\* The state of the device, its spool and the server is well typed.
THEOREM DeviceTypeCorrect == Spec => []TypeOK
<1>1. DInv => TypeOK
  BY DEF DInv
<1> QED
  BY <1>1, AlwaysDInv, PTL

(***************************************************************************)
(* Whatever is sent twice, late or by whichever producers, the server      *)
(* records the device's punches in the order of their numbers and each at  *)
(* most once (protocol.ts, evaluateSequence; device/service.ts).           *)
(***************************************************************************)
THEOREM RecordsInOrder == Spec => []RecordedInOrder
<1>1. DInv => RecordedInOrder
  BY DEF DInv
<1> QED
  BY <1>1, AlwaysDInv, PTL

(***************************************************************************)
(* A punch that the sender took out of the spool as accepted is recorded   *)
(* (runner.ts, flushSpool).                                                *)
(***************************************************************************)
THEOREM SentPunchesAreRecorded == Spec => []SentIsRecorded
<1>1. DInv => SentIsRecorded
  BY DEF DInv, AcceptedIsRecorded, IsRecorded, SentIsRecorded
<1> QED
  BY <1>1, AlwaysDInv, PTL

-----------------------------------------------------------------------------
(* One producer: no punch is lost to the order of numbers.                 *)

OneProducer == \A p, q \in Producers : p = q

\* Numbers are given out once, in order.
NumbersGrow ==
  /\ \A x \in Punches : sequence[x] < nextSequence
  /\ lastSequence < nextSequence
  /\ \A x, y \in Punches : x # y /\ sequence[x] = sequence[y] => sequence[x] = 0
  /\ \A p \in Producers : pc[p] = "loaded" => read[p] = nextSequence

\* The punch that is being filed is the latest, and is nowhere else yet; its file name
\* will be the last.
HeldIsLatest ==
  \A p \in Producers :
    /\ pc[p] # "idle" =>
         /\ prefix[held[p]] = 0
         /\ \A stage \in Stages : <<held[p], stage>> \notin requests
    /\ pc[p] \in {"numbered", "listed"} =>
         /\ lastSequence < sequence[held[p]]
         /\ \A y \in Punches \ {held[p]} : sequence[y] < sequence[held[p]]
    /\ pc[p] = "listed" => \A x \in Pending : prefix[x] <= read[p]

\* The flush under way has the first part of the spool.
BatchComesFirst ==
  /\ batch \subseteq Pending
  /\ \A x \in Pending \ batch, y \in batch : prefix[y] < prefix[x]

\* What was sent, however long ago, comes before what waits.
SentBeforePending ==
  \A y \in Punches, stage \in Stages :
    <<y, stage>> \in requests => \A x \in Pending : sequence[y] <= sequence[x]

PendingAboveLast ==
  \A x \in Pending : receipts[x] = "none" => lastSequence < sequence[x]

SInv ==
  /\ NumbersGrow
  /\ HeldIsLatest
  /\ BatchComesFirst
  /\ SentBeforePending
  /\ PendingAboveLast
  /\ SpoolInOrder

LEMMA InitSInv == Init => SInv
  BY DEF Init, SInv, NumbersGrow, HeldIsLatest, BatchComesFirst, SentBeforePending,
         PendingAboveLast,
         SpoolInOrder, Pending

LEMMA ProduceSInv ==
  ASSUME OneProducer, DInv, SInv, NEW p \in Producers, Produce(p)
  PROVE  SInv'
<1> USE DEF SInv, senderVars, serverVars
<1>0. /\ TypeOK /\ ProducersApart /\ NumberedFirst /\ Producers = {p}
      /\ NoPunch \notin Punches
  BY DeviceAssumption DEF DInv, OneProducer, DeviceAssumption
<1>1. ASSUME NEW x \in Punches, LoadCredentials(p, x) PROVE SInv'
  <2> USE <1>1 DEF LoadCredentials
  <2>1. NumbersGrow'
    BY <1>0 DEF NumbersGrow, TypeOK
  <2>2. HeldIsLatest'
    BY <1>0 DEF HeldIsLatest, TypeOK, NumberedFirst
  <2>3. BatchComesFirst' /\ SentBeforePending' /\ PendingAboveLast' /\ SpoolInOrder'
    BY DEF BatchComesFirst, SentBeforePending, PendingAboveLast, SpoolInOrder, Pending
  <2> QED
    BY <2>1, <2>2, <2>3
<1>2. CASE SaveCredentials(p)
  <2> USE <1>2 DEF SaveCredentials
  <2>0. /\ held[p] \in Punches /\ sequence[held[p]] = 0 /\ prefix[held[p]] = 0
        /\ read[p] = nextSequence /\ nextSequence \in Nat
        /\ \A stage \in Stages : <<held[p], stage>> \notin requests
        /\ \A y \in Punches : sequence[y] \in Nat
        /\ sequence' = [sequence EXCEPT ![held[p]] = nextSequence]
    BY <1>0 DEF ProducersApart, NumbersGrow, HeldIsLatest, TypeOK
  <2>n. /\ sequence'[held[p]] = nextSequence
        /\ \A y \in Punches \ {held[p]} : sequence'[y] = sequence[y]
    BY <1>0, <2>0 DEF TypeOK
  <2>1. NumbersGrow'
    BY <1>0, <2>0, <2>n DEF NumbersGrow, TypeOK
  <2>2. HeldIsLatest'
    BY <1>0, <2>0, <2>n DEF HeldIsLatest, NumbersGrow, TypeOK
  <2>3. held[p] \notin Pending /\ Pending' = Pending
    BY <2>0 DEF Pending
  <2>4. BatchComesFirst'
    BY <2>3 DEF BatchComesFirst
  <2>5. SentBeforePending' /\ PendingAboveLast' /\ SpoolInOrder'
    BY <2>0, <2>n, <2>3 DEF SentBeforePending, PendingAboveLast, SpoolInOrder, Pending
  <2> QED
    BY <2>1, <2>2, <2>4, <2>5
<1>3. CASE ListDirectory(p)
  <2> USE <1>3 DEF ListDirectory
  <2>a. PICK n \in {0} \union {prefix[x] : x \in Pending} :
          IsLastPrefix(n) /\ read' = [read EXCEPT ![p] = n]
    OBVIOUS
  <2>0. /\ n \in Nat /\ read' = [read EXCEPT ![p] = n]
        /\ \A x \in Pending : prefix[x] <= n
    BY <1>0, <2>a DEF TypeOK, Pending, IsLastPrefix
  <2>1. NumbersGrow'
    BY <1>0 DEF NumbersGrow, TypeOK
  <2>2. HeldIsLatest'
    BY <1>0, <2>0 DEF HeldIsLatest, TypeOK, Pending
  <2>3. BatchComesFirst' /\ SentBeforePending' /\ PendingAboveLast' /\ SpoolInOrder'
    BY DEF BatchComesFirst, SentBeforePending, PendingAboveLast, SpoolInOrder, Pending
  <2> QED
    BY <2>1, <2>2, <2>3
<1>4. CASE Add(p)
  <2> USE <1>4 DEF Add
  <2> DEFINE h == held[p]
  <2>0. /\ h \in Punches /\ h \notin Pending /\ h \notin batch /\ read[p] \in Nat
        /\ lastSequence < sequence[h]
        /\ \A y \in Punches \ {h} : sequence[y] < sequence[h]
        /\ \A x \in Pending : prefix[x] <= read[p]
        /\ \A x \in Punches : prefix[x] \in Nat /\ sequence[x] \in Nat
        /\ \A stage \in Stages : <<h, stage>> \notin requests
    BY <1>0 DEF ProducersApart, HeldIsLatest, TypeOK, Pending, BatchComesFirst
  <2>n. /\ prefix'[h] = read[p] + 1 /\ Pending' = Pending \union {h} /\ sequence' = sequence
        /\ \A y \in Punches \ {h} : prefix'[y] = prefix[y]
    BY <1>0, <2>0 DEF TypeOK, Pending
  <2>1. NumbersGrow'
    BY <1>0 DEF NumbersGrow, TypeOK
  <2>2. HeldIsLatest'
    BY <1>0 DEF HeldIsLatest, TypeOK
  <2> HIDE DEF h
  <2>3. Pending \subseteq Punches
    BY DEF Pending
  <2>4. BatchComesFirst'
    BY <2>0, <2>n, <2>3 DEF BatchComesFirst
  <2>5. SentBeforePending'
    BY <2>0, <2>n, <2>3 DEF SentBeforePending
  <2>6. PendingAboveLast'
    BY <2>0, <2>n DEF PendingAboveLast
  <2>7. SpoolInOrder'
    BY <2>0, <2>n, <2>3 DEF SpoolInOrder
  <2> QED
    BY <2>1, <2>2, <2>4, <2>5, <2>6, <2>7
<1>5. CASE ProducerCrash(p)
  <2> USE <1>5 DEF ProducerCrash
  <2>1. NumbersGrow' /\ HeldIsLatest'
    BY <1>0 DEF NumbersGrow, HeldIsLatest, TypeOK
  <2>2. BatchComesFirst' /\ SentBeforePending' /\ PendingAboveLast' /\ SpoolInOrder'
    BY DEF BatchComesFirst, SentBeforePending, PendingAboveLast, SpoolInOrder, Pending
  <2> QED
    BY <2>1, <2>2
<1> QED
  BY <1>1, <1>2, <1>3, <1>4, <1>5 DEF Produce

\* The disk and the sender: files only go.
LEMMA FlushSInv == ASSUME DInv, SInv, Flush \/ \E x \in Punches : Tear(x) PROVE SInv'
<1> USE DEF SInv, producerVars, serverVars
<1>0. TypeOK
  BY DEF DInv
<1>1. CASE List
  <2> USE <1>1 DEF List
  <2>1. /\ Pending' = batch' /\ Pending' \subseteq Pending
        /\ \A x \in Pending' : prefix'[x] = prefix[x]
        /\ \A x \in Punches : prefix[x] = 0 => prefix'[x] = 0
    BY <1>0 DEF Pending, TypeOK
  <2>2. NumbersGrow'
    BY DEF NumbersGrow
  <2>3. HeldIsLatest'
    BY <1>0, <2>1 DEF HeldIsLatest, DInv, ProducersApart
  <2>4. BatchComesFirst' /\ SentBeforePending' /\ PendingAboveLast' /\ SpoolInOrder'
    BY <2>1 DEF BatchComesFirst, SentBeforePending, PendingAboveLast, SpoolInOrder
  <2> QED
    BY <2>2, <2>3, <2>4
<1>2. CASE FlushPaused
  BY <1>2 DEF FlushPaused, NumbersGrow, HeldIsLatest, BatchComesFirst, SentBeforePending,
              PendingAboveLast, SpoolInOrder, Pending
<1>3. ASSUME NEW x \in Punches, Send(x) PROVE SInv'
  <2> USE <1>3 DEF Send
  <2>1. x \in batch /\ x \in Pending /\ Pending' = Pending
    BY DEF IsFirst, BatchComesFirst, Pending
  <2>2. \A y \in Pending : sequence[x] <= sequence[y]
    <3>1. \A y \in Pending \ {x} : prefix[x] < prefix[y]
      <4>1. ASSUME NEW y \in Pending \ {x} PROVE prefix[x] < prefix[y]
        <5>1. CASE y \in batch
          <6>1. prefix[x] <= prefix[y] /\ prefix[x] # prefix[y]
            BY <2>1, <5>1 DEF IsFirst, SpoolInOrder
          <6>2. prefix[x] \in Nat /\ prefix[y] \in Nat
            BY <1>0 DEF TypeOK, Pending
          <6> QED
            BY <6>1, <6>2
        <5>2. CASE y \notin batch
          BY <2>1, <5>2 DEF BatchComesFirst
        <5> QED
          BY <5>1, <5>2
      <4> QED
        BY <4>1
    <3>2. \A y \in Pending \ {x} : sequence[x] < sequence[y]
      BY <2>1, <3>1 DEF SpoolInOrder
    <3>3. \A y \in Pending : sequence[y] \in Nat
      BY <1>0 DEF TypeOK, Pending
    <3> QED
      BY <2>1, <3>2, <3>3
  <2>3. NumbersGrow'
    BY DEF NumbersGrow
  <2>4. HeldIsLatest'
    BY <2>1 DEF HeldIsLatest, Pending
  <2>5. SentBeforePending'
    BY <2>1, <2>2 DEF SentBeforePending
  <2>6. BatchComesFirst' /\ PendingAboveLast' /\ SpoolInOrder'
    BY <2>1 DEF BatchComesFirst, PendingAboveLast, SpoolInOrder
  <2> QED
    BY <2>3, <2>4, <2>5, <2>6
<1>4. ASSUME NEW x \in Punches, RemoveSpooled(x) PROVE SInv'
  <2> USE <1>4 DEF RemoveSpooled
  <2>1. /\ Pending' = Pending \ {x}
        /\ \A y \in Pending' : prefix'[y] = prefix[y]
        /\ \A y \in Punches : prefix[y] = 0 => prefix'[y] = 0
    BY <1>0 DEF Pending, TypeOK
  <2>2. NumbersGrow'
    BY DEF NumbersGrow
  <2>3. HeldIsLatest'
    BY <1>0, <2>1 DEF HeldIsLatest, DInv, ProducersApart
  <2>4. BatchComesFirst' /\ SentBeforePending' /\ PendingAboveLast' /\ SpoolInOrder'
    BY <2>1 DEF BatchComesFirst, SentBeforePending, PendingAboveLast, SpoolInOrder
  <2> QED
    BY <2>2, <2>3, <2>4
<1>5. ASSUME NEW x \in Punches, Tear(x) PROVE SInv'
  BY <1>5 DEF Tear, senderVars, NumbersGrow, HeldIsLatest, BatchComesFirst, SentBeforePending,
              PendingAboveLast, SpoolInOrder, Pending
<1> QED
  BY <1>1, <1>2, <1>3, <1>4, <1>5 DEF Flush

-----------------------------------------------------------------------------
\* Whatever adds no request, file or number and accepts nothing keeps the invariant.
LEMMA AnswerSInv ==
  ASSUME SInv, UNCHANGED <<producerVars, prefix, batch, lastSequence>>,
         requests' \subseteq requests,
         \A x \in Punches : receipts'[x] = "none" => receipts[x] = "none"
  PROVE  SInv'
<1> USE DEF SInv, producerVars
<1>1. Pending' = Pending /\ Pending \subseteq Punches
  BY DEF Pending
<1>2. NumbersGrow' /\ HeldIsLatest'
  BY <1>1 DEF NumbersGrow, HeldIsLatest
<1>3. BatchComesFirst' /\ SentBeforePending' /\ SpoolInOrder'
  BY <1>1 DEF BatchComesFirst, SentBeforePending, SpoolInOrder
<1>4. PendingAboveLast'
  BY <1>1 DEF PendingAboveLast
<1> QED
  BY <1>2, <1>3, <1>4

LEMMA AcceptSInv == ASSUME DInv, SInv, NEW x \in Punches, Accept(x) PROVE SInv'
<1> USE DEF SInv, producerVars
<1>0. /\ requests' \subseteq requests
      /\ UNCHANGED <<producerVars, prefix, batch>>
      /\ lastSequence' = sequence[x] /\ <<x, "authenticated">> \in requests
      /\ receipts' = [receipts EXCEPT ![x] = "accepted"]
  BY DEF Accept, Reply
<1>1. /\ Pending' = Pending /\ Pending \subseteq Punches /\ "authenticated" \in Stages
      /\ \A y \in Punches : sequence[y] \in Nat
      /\ \A y \in Pending : sequence[y] > 0
  <2>1. sequence \in [Punches -> Nat] /\ prefix \in [Punches -> Nat]
    BY DEF DInv, TypeOK
  <2>2. \A y \in Punches : sequence[y] = 0 => prefix[y] = 0
    BY DEF DInv, NumberedFirst
  <2>3. \A y \in Pending : y \in Punches /\ sequence[y] # 0
    BY <2>1, <2>2 DEF Pending
  <2> QED
    BY <1>0, <2>1, <2>3 DEF Pending, Stages
<1>2. NumbersGrow'
  BY <1>0 DEF NumbersGrow
<1>3. HeldIsLatest'
  <2>1. ASSUME NEW p \in Producers, pc[p] \in {"numbered", "listed"}
        PROVE  sequence[x] < sequence[held[p]]
    BY <1>0, <1>1, <2>1 DEF HeldIsLatest
  <2> QED
    BY <1>0, <1>1, <2>1 DEF HeldIsLatest
<1>4. BatchComesFirst' /\ SentBeforePending' /\ SpoolInOrder'
  BY <1>0, <1>1 DEF BatchComesFirst, SentBeforePending, SpoolInOrder
<1>5. PendingAboveLast'
  <2>1. ASSUME NEW y \in Pending, receipts'[y] = "none" PROVE sequence[x] < sequence[y]
    <3>1. y # x
      BY <1>0, <1>1, <2>1 DEF DInv, TypeOK
    <3>2. sequence[x] <= sequence[y]
      BY <1>0, <1>1 DEF SentBeforePending
    <3>3. sequence[x] # sequence[y]
      BY <1>1, <3>1 DEF NumbersGrow
    <3> QED
      BY <1>1, <3>2, <3>3
  <2> QED
    BY <1>0, <1>1, <2>1 DEF PendingAboveLast
<1> QED
  BY <1>2, <1>3, <1>4, <1>5

LEMMA ServeSInv == ASSUME DInv, SInv, NEW x \in Punches, Serve(x) PROVE SInv'
<1> USE DEF producerVars, senderVars, serverVars
<1>0. TypeOK
  BY DEF DInv
<1>1. CASE Authenticate(x)
  <2> USE <1>1 DEF Authenticate, SInv
  <2>1. /\ Pending' = Pending /\ "arrived" \in Stages
        /\ \A y \in Punches, stage \in Stages :
             <<y, stage>> \in requests' => \E s \in Stages : <<y, s>> \in requests
    BY DEF Pending, Stages
  <2>2. NumbersGrow' /\ BatchComesFirst' /\ PendingAboveLast' /\ SpoolInOrder'
    BY <2>1 DEF NumbersGrow, BatchComesFirst, PendingAboveLast, SpoolInOrder
  <2>3. SentBeforePending'
    BY <2>1 DEF SentBeforePending
  <2>4. HeldIsLatest'
    BY <1>0, <2>1 DEF HeldIsLatest, DInv, ProducersApart
  <2> QED
    BY <2>2, <2>3, <2>4
<1>2. CASE Refuse(x) \/ AnswerFromReceipt(x) \/ ServerError(x)
  BY <1>2, AnswerSInv DEF Refuse, AnswerFromReceipt, ServerError, Reply
<1>3. CASE RejectReplay(x) \/ RejectPunch(x)
  <2>1. \A y \in Punches : receipts'[y] = "none" => receipts[y] = "none"
    BY <1>0, <1>3 DEF RejectReplay, RejectPunch, TypeOK
  <2> QED
    BY <1>3, <2>1, AnswerSInv DEF RejectReplay, RejectPunch, Reply
<1>4. CASE Accept(x)
  BY <1>4, AcceptSInv
<1> QED
  BY <1>1, <1>2, <1>3, <1>4 DEF Serve, Decide

LEMMA StepSInv == ASSUME OneProducer, DInv, SInv, [Next]_vars PROVE SInv'
<1>1. CASE Revoke
  BY <1>1, AnswerSInv DEF Revoke, producerVars, senderVars
<1>2. CASE UNCHANGED vars
  BY <1>2, AnswerSInv DEF vars, producerVars, senderVars, serverVars
<1> QED
  BY <1>1, <1>2, ProduceSInv, FlushSInv, ServeSInv DEF Next

LEMMA AlwaysSInv == ASSUME OneProducer PROVE Spec => [](DInv /\ SInv)
<1>1. Init => DInv /\ SInv
  BY InitDInv, InitSInv
<1>2. DInv /\ SInv /\ [Next]_vars => (DInv /\ SInv)'
  BY StepDInv, StepSInv
<1> QED
  BY <1>1, <1>2, PTL DEF Spec

-----------------------------------------------------------------------------
(***************************************************************************)
(* With one producer the file names sort as the numbers do, whenever the   *)
(* directory is emptied and the names start from 1 again (spool.ts:18).    *)
(***************************************************************************)
THEOREM OneProducerSpoolsInOrder == ASSUME OneProducer PROVE Spec => []SpoolInOrder
<1>1. SInv => SpoolInOrder
  BY DEF SInv
<1> QED
  BY <1>1, AlwaysSInv, PTL

(***************************************************************************)
(* With one producer no punch that waits in the spool is refused for its   *)
(* number, through any lost answers, crashes, gaps and old requests that   *)
(* arrive late (spool.ts:21-25, runner.ts:11-12).                          *)
(***************************************************************************)
THEOREM OneProducerLosesNoPunch == ASSUME OneProducer PROVE Spec => PendingNeverReplayed
<1>1. ASSUME DInv, SInv, [Next]_vars
      PROVE  [\A x \in Pending : receipts[x] = "none" => receipts'[x] # "replay"]_vars
  <2>1. SUFFICES ASSUME NEW x \in Pending, receipts[x] = "none", receipts'[x] = "replay"
                 PROVE  FALSE
    OBVIOUS
  <2>2. x \in Punches /\ TypeOK /\ lastSequence < sequence[x]
    BY <1>1, <2>1 DEF Pending, DInv, SInv, PendingAboveLast
  <2>3. PICK y \in Punches : RejectReplay(y) \/ RejectPunch(y) \/ Accept(y)
    <3>1. UNCHANGED receipts \/ \E y \in Punches : RejectReplay(y) \/ RejectPunch(y) \/ Accept(y)
      BY <1>1 DEF Next, Produce, LoadCredentials, SaveCredentials, ListDirectory, Add,
                  ProducerCrash,
                  Flush, List, FlushPaused, Send, RemoveSpooled, Tear, Serve, Authenticate, Refuse,
                  Decide,
                  AnswerFromReceipt, ServerError, Revoke, vars, serverVars
    <3> QED
      BY <2>1, <3>1
  <2>4. RejectReplay(x)
    BY <2>1, <2>2, <2>3 DEF RejectReplay, RejectPunch, Accept, TypeOK
  <2> QED
    BY <2>2, <2>4 DEF RejectReplay, IsReplay, TypeOK
<1> QED
  BY <1>1, AlwaysSInv, PTL DEF Spec, PendingNeverReplayed

-----------------------------------------------------------------------------
(***************************************************************************)
(* Cards and their tokens.                                                 *)
(***************************************************************************)

CardStates == {"active", "revoked"}

CardSteps == {"idle", "mark", "insert", "registered", "revoke", "revoked", "cards"}

CardRows ==
  [token : Tokens, fingerprint : Fingerprints, employee : Employees, state : CardStates]

Registrations == [employee : Employees, used : BOOLEAN]

CardTxns ==
  [at : CardSteps, token : Tokens \union {None}, fingerprint : Fingerprints \union {None},
   employee : Employees \union {None}, status : Statuses \union {None}, locked : SUBSET CardRows]

CardShape ==
  /\ status \in [Employees -> Statuses]
  /\ tokens \in [Tokens -> Registrations \union {None}]
  /\ cards \in SUBSET CardRows
  /\ txn \in [Clients -> CardTxns]
  /\ begun \in 0 .. MaxOperations

\* What a transaction has read: a token that exists, an employee whose status it changes.
TxnFits(x) ==
  /\ x.at \in {"mark", "insert", "registered"} =>
       /\ x.token \in Tokens /\ tokens[x.token] # None
       /\ x.fingerprint \in Fingerprints /\ x.employee \in Employees
  /\ x.status # None => x.employee \in Employees

OneCardEach == \A x, y \in cards : x.token = y.token => x = y

HasCard(t) == \E x \in cards : x.token = t

UsedByCards == \A t \in Tokens : HasCard(t) <=> tokens[t] # None /\ tokens[t].used

\* Who marked a token has it alone, apart from those who are to find it marked.
Spends(x) == x.at \in {"insert", "registered"}

Alone(c) ==
  Spends(txn[c]) =>
    /\ ~tokens[txn[c].token].used
    /\ \A d \in Clients \ {c} : txn[d].token = txn[c].token => txn[d].at = "mark"

CInv ==
  /\ CardShape
  /\ \A c \in Clients : TxnFits(txn[c])
  /\ OneCardEach /\ UsedByCards
  /\ \A c \in Clients : Alone(c)

LEMMA IdleIsTxn == Idle \in CardTxns /\ Idle.at = "idle" /\ Idle.status = None /\ Idle.token = None
BY DEF Idle, CardTxns, CardSteps

LEMMA InitCInv == InitEmployment => CInv
<1> SUFFICES ASSUME InitEmployment PROVE CInv
  OBVIOUS
<1>1. CardShape
  BY IdleIsTxn, EmploymentAssumption DEF InitEmployment, CardShape, Statuses
<1>2. \A c \in Clients : TxnFits(txn[c]) /\ ~Spends(txn[c])
  BY IdleIsTxn DEF InitEmployment, TxnFits, Spends
<1>3. OneCardEach /\ UsedByCards
  BY DEF InitEmployment, OneCardEach, UsedByCards, HasCard
<1> QED
  BY <1>1, <1>2, <1>3 DEF CInv, Alone

\* A client goes on, and the rows stay as they are.
LEMMA TxnMoves ==
  ASSUME CInv, NEW c \in Clients, NEW next \in CardTxns, Go(c, next),
         UNCHANGED <<status, tokens, cards>>, begun' \in 0 .. MaxOperations,
         TxnFits(next),
         Spends(next) =>
           /\ ~tokens[next.token].used
           /\ \A d \in Clients \ {c} : txn[d].token = next.token => txn[d].at = "mark",
         \A d \in Clients \ {c} :
           Spends(txn[d]) /\ next.token = txn[d].token => next.at = "mark"
  PROVE  CInv'
<1>1. txn \in [Clients -> CardTxns]
  BY DEF CInv, CardShape
<1>2. txn'[c] = next /\ \A d \in Clients \ {c} : txn'[d] = txn[d]
  BY <1>1 DEF Go
<1>3. CardShape'
  BY <1>1 DEF CInv, CardShape, Go
<1>4. (\A d \in Clients : TxnFits(txn[d]))'
  BY <1>2 DEF CInv, TxnFits
<1>5. (OneCardEach /\ UsedByCards)'
  BY DEF CInv, OneCardEach, UsedByCards, HasCard
<1>6. ASSUME NEW d \in Clients PROVE Alone(d)'
  <2>1. CASE d = c
    BY <1>2, <2>1 DEF CInv, Alone, Spends
  <2>2. CASE d # c
    <3>1. Alone(d) /\ txn'[d] = txn[d]
      BY <1>2, <2>2 DEF CInv
    <3> SUFFICES ASSUME Spends(txn[d])
                 PROVE  /\ ~tokens[txn[d].token].used
                        /\ \A e \in Clients \ {d} :
                             txn'[e].token = txn[d].token => txn'[e].at = "mark"
      BY <3>1 DEF Alone, Spends
    <3>2. ASSUME NEW e \in Clients \ {d}, txn'[e].token = txn[d].token PROVE txn'[e].at = "mark"
      BY <1>2, <2>2, <3>1, <3>2 DEF Alone
    <3> QED
      BY <3>1, <3>2 DEF Alone
  <2> QED
    BY <2>1, <2>2
<1> QED
  BY <1>3, <1>4, <1>5, <1>6 DEF CInv

LEMMA OperationCounts == ASSUME CInv, Operation PROVE begun' \in 0 .. MaxOperations
BY EmploymentAssumption DEF CInv, CardShape, Operation

LEMMA CreateRegistrationCInv ==
  ASSUME CInv, NEW t \in Tokens, NEW e \in Employees, CreateRegistration(t, e)
  PROVE  CInv'
<1> DEFINE row == [employee |-> e, used |-> FALSE]
<1>1. /\ tokens \in [Tokens -> Registrations \union {None}]
      /\ tokens[t] = None /\ tokens' = [tokens EXCEPT ![t] = row]
      /\ UNCHANGED <<status, cards, txn>>
  BY DEF CInv, CardShape, CreateRegistration
<1>2. row \in Registrations /\ row # None /\ row.used = FALSE
  <2>1. row \in Registrations /\ row.used = FALSE
    BY Zenon DEF Registrations
  <2>2. None \notin Registrations
    BY EmploymentAssumption DEF Registrations
  <2> QED
    BY <2>1, <2>2
<1>3. tokens'[t] = row /\ \A u \in Tokens \ {t} : tokens'[u] = tokens[u]
  BY <1>1
<1>4. tokens' \in [Tokens -> Registrations \union {None}]
  BY <1>1, <1>2
<1> HIDE DEF row
<1>5. CardShape'
  BY <1>1, <1>4, OperationCounts DEF CInv, CardShape, CreateRegistration
<1>6. (\A c \in Clients : TxnFits(txn[c]))'
  BY <1>1, <1>2, <1>3 DEF CInv, TxnFits
<1>7. OneCardEach'
  BY <1>1 DEF CInv, OneCardEach
<1>8. UsedByCards'
  BY <1>1, <1>2, <1>3 DEF CInv, UsedByCards, HasCard
<1>9. ASSUME NEW c \in Clients PROVE Alone(c)'
  BY <1>1, <1>2, <1>3 DEF CInv, Alone, Spends, TxnFits
<1> QED
  BY <1>5, <1>6, <1>7, <1>8, <1>9 DEF CInv

LEMMA RegisterCardCInv ==
  ASSUME CInv, NEW c \in Clients, NEW t \in Tokens, NEW f \in Fingerprints, RegisterCard(c, t, f)
  PROVE  CInv'
<1> DEFINE next == [Idle EXCEPT !.at = "mark", !.token = t, !.fingerprint = f,
                                !.employee = tokens[t].employee]
<1>1. tokens[t] \in Registrations
  BY DEF CInv, CardShape, RegisterCard
<1>2. next \in CardTxns /\ next.at = "mark" /\ next.token = t /\ next.fingerprint = f
      /\ next.employee \in Employees /\ next.status = None
  BY <1>1 DEF Idle, CardTxns, CardSteps, Registrations
<1>3. Go(c, next) /\ UNCHANGED <<status, tokens, cards>> /\ tokens[t] # None
  BY DEF RegisterCard
<1> HIDE DEF next
<1>4. TxnFits(next) /\ ~Spends(next)
  BY <1>2, <1>3 DEF TxnFits, Spends
<1>5. begun' \in 0 .. MaxOperations
  BY OperationCounts DEF RegisterCard
<1> QED
  BY <1>2, <1>3, <1>4, <1>5, TxnMoves

LEMMA RevokeCredentialCInv ==
  ASSUME CInv, NEW c \in Clients, NEW card \in cards, RevokeCredential(c, card)
  PROVE  CInv'
<1> DEFINE next == [Idle EXCEPT !.at = "revoke", !.token = card.token,
                                !.fingerprint = card.fingerprint]
<1>1. card \in CardRows
  BY DEF CInv, CardShape
<1>2. next \in CardTxns /\ next.at = "revoke" /\ next.token = card.token /\ next.status = None
  BY <1>1 DEF Idle, CardTxns, CardSteps, CardRows
<1>3. Go(c, next) /\ UNCHANGED <<status, tokens, cards>>
  BY DEF RevokeCredential
<1> HIDE DEF next
<1>4. TxnFits(next) /\ ~Spends(next)
  BY <1>2 DEF TxnFits, Spends
<1>5. begun' \in 0 .. MaxOperations
  BY OperationCounts DEF RevokeCredential
<1>6. card.token \in Tokens /\ HasCard(card.token)
  BY <1>1 DEF CardRows, HasCard
<1>7. ASSUME NEW d \in Clients, Spends(txn[d]) PROVE next.token # txn[d].token
  <2>1. ~tokens[txn[d].token].used
    BY <1>7 DEF CInv, Alone
  <2>2. tokens[card.token].used
    BY <1>6 DEF CInv, UsedByCards
  <2> QED
    BY <1>2, <2>1, <2>2
<1> QED
  BY <1>2, <1>3, <1>4, <1>5, <1>7, TxnMoves

\* A transaction that ends, or is not about a token any more.
LEMMA TxnWithoutToken ==
  ASSUME CInv, NEW c \in Clients, NEW next \in CardTxns, Go(c, next),
         UNCHANGED <<status, tokens, cards>>, begun' \in 0 .. MaxOperations,
         next.token = None, next.at \notin {"mark", "insert", "registered"},
         next.status # None => next.employee \in Employees
  PROVE  CInv'
<1>1. TxnFits(next) /\ ~Spends(next)
  BY DEF TxnFits, Spends
<1>2. ASSUME NEW d \in Clients, Spends(txn[d]) PROVE next.token # txn[d].token
  <2>1. txn[d].token \in Tokens
    BY <1>2 DEF CInv, TxnFits, Spends
  <2> QED
    BY <2>1, EmploymentAssumption
<1> QED
  BY <1>1, <1>2, TxnMoves

LEMMA AbortCInv ==
  ASSUME CInv, NEW c \in Clients, Abort(c), UNCHANGED begun PROVE CInv'
<1>1. begun' \in 0 .. MaxOperations
  BY DEF CInv, CardShape
<1> QED
  BY <1>1, IdleIsTxn, TxnWithoutToken DEF Abort

LEMMA ChangeStatusCInv ==
  ASSUME CInv, NEW c \in Clients, NEW e \in Employees, NEW to \in Statuses,
         ChangeEmployeeStatus(c, e, to)
  PROVE  CInv'
<1> DEFINE next == [Idle EXCEPT !.at = "cards", !.employee = e, !.status = to]
<1>2. next \in CardTxns /\ next.at = "cards" /\ next.token = None /\ next.employee = e
  BY DEF Idle, CardTxns, CardSteps
<1>3. Go(c, next) /\ UNCHANGED <<status, tokens, cards>>
  BY DEF ChangeEmployeeStatus
<1>5. begun' \in 0 .. MaxOperations
  BY OperationCounts DEF ChangeEmployeeStatus
<1> HIDE DEF next
<1> QED
  BY <1>2, <1>3, <1>5, TxnWithoutToken

LEMMA MarkTokenUsedCInv ==
  ASSUME CInv, NEW c \in Clients, MarkTokenUsed(c), UNCHANGED begun PROVE CInv'
<1>1. CASE ~Available(txn[c].token)
  BY <1>1, AbortCInv DEF MarkTokenUsed
<1>2. CASE Available(txn[c].token)
  <2> DEFINE next == [txn[c] EXCEPT !.at = "insert"]
  <2>1. txn[c] \in CardTxns /\ txn[c].at = "mark" /\ TxnFits(txn[c])
    BY DEF MarkTokenUsed, CInv, CardShape
  <2>2. next \in CardTxns /\ next.at = "insert" /\ next.token = txn[c].token
        /\ next.fingerprint = txn[c].fingerprint /\ next.employee = txn[c].employee
        /\ next.status = txn[c].status
    BY <2>1 DEF CardTxns, CardSteps
  <2>3. Go(c, next) /\ UNCHANGED <<status, tokens, cards>>
    BY <1>2 DEF MarkTokenUsed
  <2> HIDE DEF next
  <2>4. TxnFits(next)
    BY <2>1, <2>2 DEF TxnFits
  <2>5. begun' \in 0 .. MaxOperations
    BY DEF CInv, CardShape
  <2>6. \A d \in Clients \ {c} : txn[d].token = txn[c].token => txn[d].at = "mark"
    BY DEF MarkTokenUsed, Elsewhere
  <2>7. ~tokens[next.token].used
    BY <1>2, <2>2 DEF Available
  <2>8. \A d \in Clients \ {c} : Spends(txn[d]) => txn[d].token # next.token
    BY <2>2, <2>6 DEF Spends
  <2> QED
    BY <2>2, <2>3, <2>4, <2>5, <2>6, <2>7, <2>8, TxnMoves
<1> QED
  BY <1>1, <1>2

LEMMA InsertCredentialCInv ==
  ASSUME CInv, NEW c \in Clients, InsertCredential(c), UNCHANGED begun PROVE CInv'
<1>1. CASE Active(txn[c].fingerprint) # {}
  BY <1>1, AbortCInv DEF InsertCredential
<1>2. CASE Active(txn[c].fingerprint) = {}
  <2> DEFINE next == [txn[c] EXCEPT !.at = "registered"]
  <2>1. txn[c] \in CardTxns /\ txn[c].at = "insert" /\ TxnFits(txn[c]) /\ Alone(c)
    BY DEF InsertCredential, CInv, CardShape
  <2>2. next \in CardTxns /\ next.at = "registered" /\ next.token = txn[c].token
        /\ next.fingerprint = txn[c].fingerprint /\ next.employee = txn[c].employee
        /\ next.status = txn[c].status
    BY <2>1 DEF CardTxns, CardSteps
  <2>3. Go(c, next) /\ UNCHANGED <<status, tokens, cards>>
    BY <1>2 DEF InsertCredential
  <2> HIDE DEF next
  <2>4. TxnFits(next)
    BY <2>1, <2>2 DEF TxnFits
  <2>5. begun' \in 0 .. MaxOperations
    BY DEF CInv, CardShape
  <2>6. /\ ~tokens[next.token].used
        /\ \A d \in Clients \ {c} : txn[d].token = next.token => txn[d].at = "mark"
    BY <2>1, <2>2 DEF Alone, Spends
  <2>8. \A d \in Clients \ {c} : Spends(txn[d]) => txn[d].token # next.token
    BY <2>6 DEF Spends
  <2> QED
    BY <2>2, <2>3, <2>4, <2>5, <2>6, <2>8, TxnMoves
<1> QED
  BY <1>1, <1>2

LEMMA CommitRegistrationCInv ==
  ASSUME CInv, NEW c \in Clients, CommitRegistration(c), UNCHANGED begun PROVE CInv'
<1> DEFINE t    == txn[c].token
           card == [token |-> t, fingerprint |-> txn[c].fingerprint,
                    employee |-> txn[c].employee, state |-> "active"]
<1>1. /\ txn \in [Clients -> CardTxns] /\ tokens \in [Tokens -> Registrations \union {None}]
      /\ txn[c].at = "registered" /\ TxnFits(txn[c]) /\ Alone(c)
  BY DEF CommitRegistration, CInv, CardShape
<1>2. t \in Tokens /\ tokens[t] \in Registrations /\ card \in CardRows /\ card.token = t
  BY <1>1 DEF TxnFits, CardRows, CardStates
<1>3. /\ ~tokens[t].used
      /\ \A d \in Clients \ {c} : txn[d].token = t => txn[d].at = "mark"
  BY <1>1 DEF Alone, Spends
<1>4. /\ tokens' = [tokens EXCEPT ![t].used = TRUE]
      /\ cards' = cards \union {card}
      /\ txn' = [txn EXCEPT ![c] = Idle] /\ status' = status
  BY DEF CommitRegistration, Go
<1> HIDE DEF card, t
<1>5. /\ tokens'[t] = [tokens[t] EXCEPT !.used = TRUE]
      /\ \A u \in Tokens \ {t} : tokens'[u] = tokens[u]
  BY <1>1, <1>2, <1>4
<1>6. tokens'[t] \in Registrations /\ tokens'[t].used
  BY <1>2, <1>5 DEF Registrations
<1>7. tokens'[t] # None
  BY <1>6, EmploymentAssumption DEF Registrations
<1>8. tokens' \in [Tokens -> Registrations \union {None}]
  BY <1>1, <1>4, <1>5, <1>6
<1>9. txn'[c] = Idle /\ \A d \in Clients \ {c} : txn'[d] = txn[d]
  BY <1>1, <1>4
<1>10. CardShape'
  <2>1. txn' \in [Clients -> CardTxns]
    BY <1>1, <1>4, IdleIsTxn
  <2>2. status' \in [Employees -> Statuses] /\ cards' \in SUBSET CardRows
        /\ begun' \in 0 .. MaxOperations
    BY <1>2, <1>4 DEF CInv, CardShape
  <2> QED
    BY <1>8, <2>1, <2>2 DEF CardShape
<1>11. ASSUME NEW d \in Clients PROVE TxnFits(txn[d])'
  <2>1. CASE d = c
    BY <1>9, <2>1, IdleIsTxn DEF TxnFits
  <2>2. CASE d # c
    BY <1>5, <1>7, <1>9, <2>2 DEF CInv, TxnFits
  <2> QED
    BY <2>1, <2>2
<1>12. ~HasCard(t)
  BY <1>2, <1>3 DEF CInv, UsedByCards
<1>13. OneCardEach'
  BY <1>2, <1>4, <1>12 DEF CInv, OneCardEach, HasCard
<1>14. UsedByCards'
  BY <1>2, <1>4, <1>5, <1>6, <1>7 DEF CInv, UsedByCards, HasCard
<1>15. ASSUME NEW d \in Clients PROVE Alone(d)'
  <2>1. CASE d = c
    BY <1>9, <2>1, IdleIsTxn DEF Alone, Spends
  <2>2. CASE d # c
    <3> SUFFICES ASSUME Spends(txn[d])
                 PROVE  /\ ~tokens'[txn[d].token].used
                        /\ \A e \in Clients \ {d} :
                             txn'[e].token = txn[d].token => txn'[e].at = "mark"
      BY <1>9, <2>2 DEF Alone, Spends
    <3>1. txn[d].token \in Tokens \ {t}
      BY <1>3, <2>2 DEF CInv, TxnFits, Spends
    <3>2. /\ ~tokens[txn[d].token].used
          /\ \A e \in Clients \ {d} : txn[e].token = txn[d].token => txn[e].at = "mark"
      BY DEF CInv, Alone
    <3>3. ASSUME NEW e \in Clients \ {d}, txn'[e].token = txn[d].token PROVE txn'[e].at = "mark"
      <4>1. CASE e = c
        BY <1>9, <3>1, <3>3, <4>1, IdleIsTxn, EmploymentAssumption
      <4>2. CASE e # c
        BY <1>9, <3>2, <3>3, <4>2
      <4> QED
        BY <4>1, <4>2
    <3> QED
      BY <1>5, <3>1, <3>2, <3>3
  <2> QED
    BY <2>1, <2>2
<1> QED
  BY <1>10, <1>11, <1>13, <1>14, <1>15 DEF CInv

LEMMA WriteRevocationCInv ==
  ASSUME CInv, NEW c \in Clients, WriteRevocation(c), UNCHANGED begun PROVE CInv'
<1> PICK card \in cards : Go(c, [Idle EXCEPT !.at = "revoked", !.locked = {card}])
  BY DEF WriteRevocation
<1> DEFINE next == [Idle EXCEPT !.at = "revoked", !.locked = {card}]
<1>1. card \in CardRows /\ begun' \in 0 .. MaxOperations /\ UNCHANGED <<status, tokens, cards>>
  BY DEF CInv, CardShape, WriteRevocation
<1>2. next \in CardTxns /\ next.at = "revoked" /\ next.token = None /\ next.status = None
  BY <1>1 DEF Idle, CardTxns, CardSteps
<1> HIDE DEF next
<1> QED
  BY <1>1, <1>2, TxnWithoutToken DEF next

LEMMA RevokeCardsCInv ==
  ASSUME CInv, NEW c \in Clients, RevokeCardsOfEmployee(c), UNCHANGED begun PROVE CInv'
<1> DEFINE hers == {card \in cards : card.employee = txn[c].employee /\ card.state = "active"}
           rows == IF txn[c].status = "retired" THEN hers ELSE {}
           next == [txn[c] EXCEPT !.at = "revoked", !.locked = rows]
<1>1. txn[c] \in CardTxns /\ TxnFits(txn[c]) /\ begun' \in 0 .. MaxOperations
  BY DEF CInv, CardShape
<1>2. rows \in SUBSET CardRows
  BY DEF CInv, CardShape
<1>3. Go(c, next) /\ UNCHANGED <<status, tokens, cards>> /\ txn[c].at = "cards"
  BY DEF RevokeCardsOfEmployee
<1> HIDE DEF rows
<1>4. next \in CardTxns /\ next.at = "revoked" /\ next.token = txn[c].token
      /\ next.employee = txn[c].employee /\ next.status = txn[c].status
  BY <1>1, <1>2 DEF CardTxns, CardSteps
<1> HIDE DEF next
<1>5. TxnFits(next) /\ ~Spends(next)
  BY <1>1, <1>4 DEF TxnFits, Spends
<1>6. ASSUME NEW d \in Clients \ {c}, Spends(txn[d]) PROVE next.token # txn[d].token
  BY <1>3, <1>4, <1>6 DEF CInv, Alone
<1> QED
  BY <1>1, <1>3, <1>4, <1>5, <1>6, TxnMoves

LEMMA CommitRevocationCInv ==
  ASSUME CInv, NEW c \in Clients, CommitRevocation(c), UNCHANGED begun PROVE CInv'
<1> DEFINE new(card) == IF card \in txn[c].locked THEN [card EXCEPT !.state = "revoked"] ELSE card
<1>1. /\ txn \in [Clients -> CardTxns] /\ cards \in SUBSET CardRows /\ TxnFits(txn[c])
      /\ txn[c] \in CardTxns /\ status \in [Employees -> Statuses]
  BY DEF CInv, CardShape
<1>2. /\ cards' = {new(card) : card \in cards} /\ tokens' = tokens
      /\ status' = IF txn[c].status = None THEN status
                   ELSE [status EXCEPT ![txn[c].employee] = txn[c].status]
      /\ txn' = [txn EXCEPT ![c] = Idle]
  BY DEF CommitRevocation, Go
<1>3. ASSUME NEW card \in CardRows PROVE new(card) \in CardRows /\ new(card).token = card.token
  BY DEF CardRows, CardStates
<1> HIDE DEF new
<1>4. status' \in [Employees -> Statuses]
  BY <1>1, <1>2 DEF TxnFits, CardTxns
<1>5. txn' \in [Clients -> CardTxns]
  BY <1>1, <1>2, IdleIsTxn
<1>6. CardShape'
  BY <1>1, <1>2, <1>3, <1>4, <1>5 DEF CInv, CardShape
<1>7. txn'[c] = Idle /\ \A d \in Clients \ {c} : txn'[d] = txn[d]
  BY <1>1, <1>2
<1>8. ASSUME NEW d \in Clients PROVE TxnFits(txn[d])'
  <2>1. CASE d = c
    BY <1>7, <2>1, IdleIsTxn DEF TxnFits
  <2>2. CASE d # c
    BY <1>2, <1>7, <2>2 DEF CInv, TxnFits
  <2> QED
    BY <2>1, <2>2
<1>9. OneCardEach'
  <2> SUFFICES ASSUME NEW x \in cards', NEW y \in cards', x.token = y.token PROVE x = y
    BY DEF OneCardEach
  <2>1. PICK v \in cards, w \in cards : x = new(v) /\ y = new(w)
    BY <1>2
  <2>2. v.token = w.token
    BY <1>1, <1>3, <2>1
  <2> QED
    BY <2>1, <2>2 DEF CInv, OneCardEach
<1>10. \A t : HasCard(t)' <=> HasCard(t)
  BY <1>1, <1>2, <1>3 DEF HasCard
<1>11. UsedByCards'
  BY <1>2, <1>10 DEF CInv, UsedByCards
<1>12. ASSUME NEW d \in Clients PROVE Alone(d)'
  <2>1. CASE d = c
    BY <1>7, <2>1, IdleIsTxn DEF Alone, Spends
  <2>2. CASE d # c
    <3> SUFFICES ASSUME Spends(txn[d])
                 PROVE  /\ ~tokens[txn[d].token].used
                        /\ \A e \in Clients \ {d} :
                             txn'[e].token = txn[d].token => txn'[e].at = "mark"
      BY <1>2, <1>7, <2>2 DEF Alone, Spends
    <3>1. txn[d].token \in Tokens
      BY DEF CInv, TxnFits, Spends
    <3>2. /\ ~tokens[txn[d].token].used
          /\ \A e \in Clients \ {d} : txn[e].token = txn[d].token => txn[e].at = "mark"
      BY DEF CInv, Alone
    <3>3. ASSUME NEW e \in Clients \ {d}, txn'[e].token = txn[d].token PROVE txn'[e].at = "mark"
      <4>1. CASE e = c
        BY <1>7, <3>1, <3>3, <4>1, IdleIsTxn, EmploymentAssumption
      <4>2. CASE e # c
        BY <1>7, <3>2, <3>3, <4>2
      <4> QED
        BY <4>1, <4>2
    <3> QED
      BY <3>2, <3>3
  <2> QED
    BY <2>1, <2>2
<1> QED
  BY <1>6, <1>8, <1>9, <1>11, <1>12 DEF CInv

LEMMA SettingsCInv ==
  ASSUME CInv, UNCHANGED cardVars, begun' \in 0 .. MaxOperations PROVE CInv'
<1>1. UNCHANGED <<status, tokens, cards, txn>>
  BY DEF cardVars
<1> QED
  BY <1>1 DEF CInv, CardShape, TxnFits, OneCardEach, UsedByCards, HasCard, Alone, Spends

LEMMA StepCInv == CInv /\ [NextEmployment]_employmentVars => CInv'
<1> SUFFICES ASSUME CInv, [NextEmployment]_employmentVars PROVE CInv'
  OBVIOUS
<1>1. CASE UNCHANGED employmentVars
  <2>1. begun' \in 0 .. MaxOperations /\ UNCHANGED cardVars
    BY <1>1 DEF employmentVars, CInv, CardShape
  <2> QED
    BY <2>1, SettingsCInv
<1>2. ASSUME NEW t \in Tokens, NEW e \in Employees, CreateRegistration(t, e) PROVE CInv'
  BY <1>2, CreateRegistrationCInv
<1>3. ASSUME NEW c \in Clients, NEW t \in Tokens, NEW f \in Fingerprints, RegisterCard(c, t, f)
      PROVE  CInv'
  BY <1>3, RegisterCardCInv
<1>4. ASSUME NEW c \in Clients, NEW card \in cards, RevokeCredential(c, card) PROVE CInv'
  BY <1>4, RevokeCredentialCInv
<1>5. ASSUME NEW c \in Clients, NEW e \in Employees, NEW to \in Statuses,
             ChangeEmployeeStatus(c, e, to)
      PROVE  CInv'
  BY <1>5, ChangeStatusCInv
<1>6. CASE \/ \E contract \in ContractsOffered : CreateContract(contract)
           \/ \E e \in Employees, contract \in contracts, term \in Terms :
                CreateAssignment(e, contract, term)
           \/ \E assignment \in assignments, endsOn \in Dates : EndAssignment(assignment, endsOn)
           \/ \E version \in VersionsOffered : CreateCalculationRuleVersion(version)
           \/ \E system \in SystemsOffered : AssignLaborSystem(system)
           \/ \E system \in systems, effectiveTo \in Dates :
                EndLaborSystemAssignment(system, effectiveTo)
  <2>1. Operation /\ UNCHANGED cardVars
    BY <1>6 DEF CreateContract, CreateAssignment, EndAssignment, CreateCalculationRuleVersion,
                AssignLaborSystem, EndLaborSystemAssignment
  <2> QED
    BY <2>1, OperationCounts, SettingsCInv
<1>7. ASSUME NEW c \in Clients, CardStep(c) PROVE CInv'
  BY <1>7, MarkTokenUsedCInv, InsertCredentialCInv, CommitRegistrationCInv, WriteRevocationCInv,
     RevokeCardsCInv, CommitRevocationCInv, AbortCInv DEF CardStep, Rollback
<1> QED
  BY <1>1, <1>2, <1>3, <1>4, <1>5, <1>6, <1>7 DEF NextEmployment, Begin

LEMMA AlwaysCInv == EmploymentSpec => []CInv
BY InitCInv, StepCInv, PTL DEF EmploymentSpec

(***************************************************************************)
(* However many stations read a token at the same time, and whatever fails *)
(* afterwards, a token registers one card if it is used and none if it is  *)
(* not (card/service.ts, registerCard).                                    *)
(***************************************************************************)
THEOREM TokensRegisterOneCardEach == EmploymentSpec => []TokenRegistersOneCard
<1>1. ASSUME CInv PROVE TokenRegistersOneCard
  <2> SUFFICES ASSUME NEW t \in Tokens, tokens[t] # None
               PROVE  Cardinality({card \in cards : card.token = t}) =
                        IF tokens[t].used THEN 1 ELSE 0
    BY DEF TokenRegistersOneCard
  <2> DEFINE of == {card \in cards : card.token = t}
  <2>1. HasCard(t) <=> tokens[t].used
    BY <1>1 DEF CInv, UsedByCards
  <2>2. CASE HasCard(t)
    <3>1. PICK x \in cards : x.token = t
      BY <2>2 DEF HasCard
    <3>2. of = {x}
      BY <1>1, <3>1 DEF CInv, OneCardEach
    <3> QED
      BY <2>1, <2>2, <3>2, FS_Singleton
  <2>3. CASE ~HasCard(t)
    <3>1. of = {}
      BY <2>3 DEF HasCard
    <3> QED
      BY <2>1, <2>3, <3>1, FS_EmptySet
  <2> QED
    BY <2>2, <2>3
<1> QED
  BY <1>1, AlwaysCInv, PTL

-----------------------------------------------------------------------------
(***************************************************************************)
(* Assignments.                                                            *)
(***************************************************************************)

AssignmentShape ==
  /\ contracts \subseteq {k \in Contracts : k.from <= k.to}
  /\ assignments \subseteq {a \in Assignments : a.contract \in contracts /\ a.from <= a.to}

\* No employee is assigned twice to one day.
AssignedOnce ==
  \A a, b \in assignments : a.employee = b.employee /\ a # b => ~Overlaps(a, b)

AInv == AssignmentShape /\ AssignedOnce

LEMMA OverlapIsMutual ==
  ASSUME NEW a \in Assignments, NEW b \in Assignments PROVE Overlaps(a, b) <=> Overlaps(b, a)
BY DEF Overlaps

\* What the table takes overlaps none of the other assignments.
LEMMA FittingAssignment ==
  ASSUME AInv, NEW others \in SUBSET assignments, NEW new \in Assignments,
         new.contract \in contracts, new.from <= new.to, Fits(new, others),
         assignments' = others \union {new}, UNCHANGED contracts
  PROVE  AInv'
<1>1. AssignmentShape'
  BY DEF AInv, AssignmentShape
<1>2. ASSUME NEW a \in others, a.employee = new.employee
      PROVE  ~Overlaps(a, new) /\ ~Overlaps(new, a)
  <2>1. a \in Assignments
    BY DEF AInv, AssignmentShape
  <2> QED
    BY <1>2, <2>1, OverlapIsMutual DEF Fits
<1>3. AssignedOnce'
  BY <1>2 DEF AInv, AssignedOnce
<1> QED
  BY <1>1, <1>3 DEF AInv

LEMMA InitAInv == InitEmployment => AInv
BY DEF InitEmployment, AInv, AssignmentShape, AssignedOnce

LEMMA StepAInv == AInv /\ [NextEmployment]_employmentVars => AInv'
<1> SUFFICES ASSUME AInv, [NextEmployment]_employmentVars PROVE AInv'
  OBVIOUS
<1>1. ASSUME UNCHANGED <<contracts, assignments>> PROVE AInv'
  BY <1>1 DEF AInv, AssignmentShape, AssignedOnce
<1>2. CASE UNCHANGED employmentVars
  BY <1>1, <1>2 DEF employmentVars, settingVars
<1>3. ASSUME NEW contract \in ContractsOffered, CreateContract(contract) PROVE AInv'
  <2>1. contract \in Contracts /\ contract.from <= contract.to
    BY <1>3, EmploymentAssumption DEF CreateContract
  <2>2. contracts' = contracts \union {contract} /\ assignments' = assignments
    BY <1>3 DEF CreateContract
  <2> QED
    BY <2>1, <2>2 DEF AInv, AssignmentShape, AssignedOnce
<1>4. ASSUME NEW e \in Employees, NEW contract \in contracts, NEW term \in Terms,
             CreateAssignment(e, contract, term)
      PROVE  AInv'
  <2> DEFINE new == [employee |-> e, contract |-> contract, from |-> term.from, to |-> term.to]
  <2>1. contract \in Contracts
    BY DEF AInv, AssignmentShape
  <2>2. term \in [from : Int, to : Int] /\ term.from <= term.to
    BY EmploymentAssumption
  <2>3. new \in Assignments /\ new.contract \in contracts /\ new.from <= new.to
    BY <2>1, <2>2 DEF Assignments
  <2>4. Fits(new, assignments) /\ assignments' = assignments \union {new} /\ contracts' = contracts
    BY <1>4 DEF CreateAssignment
  <2> HIDE DEF new
  <2> QED
    BY <2>3, <2>4, FittingAssignment
<1>5. ASSUME NEW assignment \in assignments, NEW endsOn \in Dates, EndAssignment(assignment, endsOn)
      PROVE  AInv'
  <2> DEFINE new == [assignment EXCEPT !.to = endsOn]
  <2>1. assignment \in Assignments /\ assignment.contract \in contracts
    BY DEF AInv, AssignmentShape
  <2>2. endsOn \in Int /\ assignment.from <= endsOn
    BY <1>5, PeriodsAssumption DEF Dates, EndAssignment
  <2>3. new \in Assignments /\ new.contract \in contracts /\ new.from <= new.to
    BY <2>1, <2>2 DEF Assignments
  <2>4. /\ Fits(new, assignments \ {assignment})
        /\ assignments' = (assignments \ {assignment}) \union {new} /\ contracts' = contracts
    BY <1>5 DEF EndAssignment
  <2> HIDE DEF new
  <2> QED
    BY <2>3, <2>4, FittingAssignment
<1>6. CASE \/ \E t \in Tokens, e \in Employees : CreateRegistration(t, e)
           \/ \E c \in Clients, t \in Tokens, f \in Fingerprints : RegisterCard(c, t, f)
           \/ \E c \in Clients, card \in cards : RevokeCredential(c, card)
           \/ \E c \in Clients, e \in Employees, to \in Statuses : ChangeEmployeeStatus(c, e, to)
           \/ \E version \in VersionsOffered : CreateCalculationRuleVersion(version)
           \/ \E system \in SystemsOffered : AssignLaborSystem(system)
           \/ \E system \in systems, effectiveTo \in Dates :
                EndLaborSystemAssignment(system, effectiveTo)
           \/ \E c \in Clients : CardStep(c)
  <2>1. UNCHANGED <<contracts, assignments>>
    BY <1>6 DEF CreateRegistration, RegisterCard, RevokeCredential, ChangeEmployeeStatus,
                CreateCalculationRuleVersion, AssignLaborSystem, EndLaborSystemAssignment,
                CardStep, settingVars
  <2> QED
    BY <1>1, <2>1
<1> QED
  BY <1>2, <1>3, <1>4, <1>5, <1>6 DEF NextEmployment, Begin

LEMMA AlwaysAInv == EmploymentSpec => []AInv
BY InitAInv, StepAInv, PTL DEF EmploymentSpec

\* The statuses, tokens, cards and assignments are well typed.
THEOREM EmploymentTypeCorrect == EmploymentSpec => []EmploymentTypeOK
<1>1. CInv /\ AInv => EmploymentTypeOK
  <2> SUFFICES ASSUME CInv, AInv PROVE EmploymentTypeOK
    OBVIOUS
  <2>1. \A t \in Tokens : tokens[t] # None => tokens[t].employee \in Employees
    BY DEF CInv, CardShape, Registrations
  <2>2. \A card \in cards : card.state \in {"active", "revoked"}
    BY DEF CInv, CardShape, CardRows, CardStates
  <2>3. \A a \in assignments : a.contract \in contracts /\ a.from <= a.to
    BY DEF AInv, AssignmentShape
  <2> QED
    BY <2>1, <2>2, <2>3 DEF CInv, CardShape, EmploymentTypeOK
<1> QED
  BY <1>1, AlwaysCInv, AlwaysAInv, PTL

(***************************************************************************)
(* Whatever assignments are made, ended or prolonged, no two of one        *)
(* employee share a date (employee_assignments_no_overlap).                *)
(***************************************************************************)
THEOREM NobodyIsAssignedTwice == EmploymentSpec => []AssignedOnce
<1>1. AInv => AssignedOnce
  BY DEF AInv
<1> QED
  BY <1>1, AlwaysAInv, PTL

-----------------------------------------------------------------------------
(***************************************************************************)
(* Who sees an employee.                                                   *)
(***************************************************************************)

LEMMA LaterOfTwo ==
  ASSUME NEW m \in Int, NEW n \in Int
  PROVE  Max({m, n}) \in {m, n} /\ Max({m, n}) >= m /\ Max({m, n}) >= n
<1> DEFINE P(x) == x \in {m, n} /\ \A y \in {m, n} : x >= y
<1>1. P(IF m >= n THEN m ELSE n)
  OBVIOUS
<1>2. Max({m, n}) = CHOOSE x : P(x)
  BY DEF Max
<1>3. P(CHOOSE x : P(x))
  <2> HIDE DEF P
  <2> QED
    BY <1>1
<1> QED
  BY <1>2, <1>3

LEMMA EarlierOfTwo ==
  ASSUME NEW m \in Int, NEW n \in Int
  PROVE  Min({m, n}) \in {m, n} /\ Min({m, n}) <= m /\ Min({m, n}) <= n
<1> DEFINE P(x) == x \in {m, n} /\ \A y \in {m, n} : x <= y
<1>1. P(IF m <= n THEN m ELSE n)
  OBVIOUS
<1>2. Min({m, n}) = CHOOSE x : P(x)
  BY DEF Min
<1>3. P(CHOOSE x : P(x))
  <2> HIDE DEF P
  <2> QED
    BY <1>1
<1> QED
  BY <1>2, <1>3

\* A host has to do with whom it has over a period if both the assignment and its contract do.
LEMMA HostOverlaps ==
  ASSUME NEW a \in Assignments, NEW period \in [from : Int, to : Int], period.from <= period.to
  PROVE  Overlaps(HostPeriod(a), period) <=>
           Overlaps(a, period) /\ Overlaps(a.contract, period)
<1>1. a.from \in Int /\ a.to \in Int /\ a.contract.from \in Int /\ a.contract.to \in Int
  BY DEF Assignments, Contracts
<1>2. /\ HostPeriod(a).from = Max({a.from, a.contract.from})
      /\ HostPeriod(a).to = Min({a.to, a.contract.to})
  BY DEF HostPeriod
<1> DEFINE later == Max({a.from, a.contract.from})
           earlier == Min({a.to, a.contract.to})
<1>3. later \in {a.from, a.contract.from} /\ later >= a.from /\ later >= a.contract.from
  BY <1>1, LaterOfTwo
<1>4. earlier \in {a.to, a.contract.to} /\ earlier <= a.to /\ earlier <= a.contract.to
  BY <1>1, EarlierOfTwo
<1>5. Overlaps(HostPeriod(a), period) <=> later <= period.to /\ period.from <= earlier
  BY <1>2 DEF Overlaps
<1> HIDE DEF later, earlier
<1> QED
  BY <1>1, <1>3, <1>4, <1>5 DEF Overlaps

LEMMA RangeIsPeriod ==
  ASSUME NEW r \in Ranges PROVE r \in [from : Int, to : Int] /\ r.from <= r.to
BY PeriodsAssumption DEF Ranges, Dates

\* The condition of the queries is the one on rows that were read.
LEMMA SameCondition ==
  ASSUME AInv, NEW e \in Employees, NEW r \in [from : Int, to : Int], r.from <= r.to, NEW orgs
  PROVE  CanAccess(orgs, e, r) <=>
           \/ EmployerOf[e] \in orgs
           \/ \E a \in assignments : a.employee = e /\ HostCondition(a, orgs, r)
<1>1. \A a \in assignments : a \in Assignments
  BY DEF AInv, AssignmentShape
<1>2. \A a : HostPeriod(a).host = a.contract.host
  BY DEF HostPeriod
<1>3. (\E h \in HostOrganizations(e) : h.host \in orgs /\ Overlaps(h, r)) <=>
        \E a \in assignments : a.employee = e /\ HostCondition(a, orgs, r)
  <2>1. ASSUME NEW h \in HostOrganizations(e), h.host \in orgs, Overlaps(h, r)
        PROVE  \E a \in assignments : a.employee = e /\ HostCondition(a, orgs, r)
    <3> PICK a \in assignments : a.employee = e /\ h = HostPeriod(a)
      BY DEF HostOrganizations
    <3>1. Overlaps(a, r) /\ Overlaps(a.contract, r)
      BY <1>1, <2>1, HostOverlaps
    <3> QED
      BY <1>2, <2>1, <3>1 DEF HostCondition
  <2>2. ASSUME NEW a \in assignments, a.employee = e, HostCondition(a, orgs, r)
        PROVE  \E h \in HostOrganizations(e) : h.host \in orgs /\ Overlaps(h, r)
    <3>1. HostPeriod(a) \in HostOrganizations(e)
      BY <2>2 DEF HostOrganizations
    <3>2. Overlaps(HostPeriod(a), r)
      BY <1>1, <2>2, HostOverlaps DEF HostCondition
    <3> QED
      BY <1>2, <2>2, <3>1, <3>2 DEF HostCondition
  <2> QED
    BY <2>1, <2>2
<1> QED
  BY <1>3 DEF CanAccess

\* On a date an employee has one assignment at most.
LEMMA OneAssignmentAt ==
  ASSUME AInv, NEW e \in Employees, NEW date \in Int, NEW a \in assignments,
         a.employee = e, date \in Days(a)
  PROVE  ActiveAssignmentAt(e, date) = a
<1> DEFINE applicable == {b \in assignments : b.employee = e /\ date \in Days(b)}
<1>1. \A b \in assignments : b \in Assignments
  BY DEF AInv, AssignmentShape
<1>2. ASSUME NEW b \in applicable PROVE b = a
  <2>1. Overlaps(a, b)
    BY <1>1, <1>2 DEF Overlaps, Days, Assignments
  <2> QED
    BY <1>2, <2>1 DEF AInv, AssignedOnce
<1>3. applicable = {a}
  BY <1>2
<1>4. a.from <= a.from
  BY <1>1 DEF Assignments
<1>5. (CHOOSE x \in {a} : \A b \in {a} : b.from <= x.from) = a
  BY <1>4
<1>6. ActiveAssignmentAt(e, date) =
        IF applicable = {} THEN None
        ELSE CHOOSE x \in applicable : \A b \in applicable : b.from <= x.from
  BY DEF ActiveAssignmentAt
<1> QED
  BY <1>3, <1>5, <1>6

\* On a date the hosts who are concerned are the one the employee works for.
LEMMA HostIsTheOne ==
  ASSUME AInv, NEW e \in Employees, NEW date \in Int, NEW orgs \in SUBSET Organizations
  PROVE  HostAt(e, date) \in orgs <=>
           \E a \in assignments : a.employee = e /\ HostCondition(a, orgs, Day(date))
<1>1. \A a \in assignments : a \in Assignments /\ a # None
  BY EmploymentAssumption DEF AInv, AssignmentShape
<1>2. \A p : Day(date).from = date /\ Day(date).to = date
  BY DEF Day
<1>3. \A a \in Assignments : /\ Overlaps(a, Day(date)) <=> date \in Days(a)
                             /\ Overlaps(a.contract, Day(date)) <=> date \in Days(a.contract)
  BY <1>2 DEF Overlaps, Days, Assignments, Contracts
<1>4. CASE \E a \in assignments : a.employee = e /\ date \in Days(a)
  <2> PICK a \in assignments : a.employee = e /\ date \in Days(a)
    BY <1>4
  <2>1. ActiveAssignmentAt(e, date) = a
    BY OneAssignmentAt
  <2>2. HostAt(e, date) = IF date \in Days(a.contract) THEN a.contract.host ELSE None
    BY <1>1, <2>1 DEF HostAt
  <2>3. HostAt(e, date) \in orgs <=> date \in Days(a.contract) /\ a.contract.host \in orgs
    BY <2>2, EmploymentAssumption
  <2>4. \A b \in assignments : b.employee = e /\ date \in Days(b) => b = a
    BY <2>1, OneAssignmentAt
  <2> QED
    BY <1>1, <1>3, <2>3, <2>4 DEF HostCondition
<1>5. CASE ~\E a \in assignments : a.employee = e /\ date \in Days(a)
  <2>1. ActiveAssignmentAt(e, date) = None
    BY <1>5 DEF ActiveAssignmentAt
  <2>2. HostAt(e, date) = None
    BY <2>1 DEF HostAt
  <2>3. HostAt(e, date) \notin orgs
    BY <2>2, EmploymentAssumption
  <2> QED
    BY <1>1, <1>3, <1>5, <2>3 DEF HostCondition
<1> QED
  BY <1>4, <1>5

\* Who is concerned over a period is so on one of its dates.
LEMMA SomeDateIsShared ==
  ASSUME AInv, NEW a \in assignments, Overlaps(a, a.contract),
         NEW r \in [from : Int, to : Int], r.from <= r.to
  PROVE  Overlaps(a, r) /\ Overlaps(a.contract, r) <=>
           \E date \in Days(r) : Overlaps(a, Day(date)) /\ Overlaps(a.contract, Day(date))
<1> DEFINE k == a.contract
<1>1. /\ a.from \in Int /\ a.to \in Int /\ k.from \in Int /\ k.to \in Int
      /\ a.from <= a.to /\ k.from <= k.to
  BY DEF AInv, AssignmentShape, Assignments, Contracts
<1>2. \A date : Day(date).from = date /\ Day(date).to = date
  BY DEF Day
<1> HIDE DEF k
<1>3. ASSUME Overlaps(a, r), Overlaps(k, r)
      PROVE  \E date \in Days(r) : Overlaps(a, Day(date)) /\ Overlaps(k, Day(date))
  <2> DEFINE m == IF a.from >= k.from THEN a.from ELSE k.from
             date == IF m >= r.from THEN m ELSE r.from
  <2>1. /\ date \in Int /\ r.from <= date /\ date <= r.to /\ a.from <= date /\ date <= a.to
        /\ k.from <= date /\ date <= k.to
    BY <1>1, <1>3 DEF Overlaps, k
  <2> HIDE DEF date
  <2>2. date \in Days(r)
    BY <2>1 DEF Days
  <2> QED
    BY <1>2, <2>1, <2>2 DEF Overlaps
<1>4. ASSUME NEW date \in Days(r), Overlaps(a, Day(date)), Overlaps(k, Day(date))
      PROVE  Overlaps(a, r) /\ Overlaps(k, r)
  BY <1>1, <1>2, <1>4 DEF Overlaps, Days
<1> QED
  BY <1>3, <1>4 DEF k

\* What a user may see is the workspace, some organizations and an employee, or only the latter.
LEMMA VisibilityFits ==
  ASSUME NEW v \in Visibilities
  PROVE  /\ v.organizations \in SUBSET Organizations
         /\ v.kind \in {"workspace", "organizations", "self", "none"}
         /\ v.kind # "organizations" => v.organizations = {}
         /\ v.kind \in {"workspace", "none"} => v.self = None
<1> PICK roles \in SUBSET Roles, orgs \in SUBSET Organizations, self \in Employees \union {None} :
      v = ResolveVisibility(roles, orgs, self)
  BY DEF Visibilities
<1> QED
  BY DEF ResolveVisibility

\* What a user sees for a period, in one form for both ways it is decided.
LEMMA SeesForAPeriod ==
  ASSUME AInv, NEW v \in Visibilities, NEW e \in Employees,
         NEW r \in [from : Int, to : Int], r.from <= r.to
  PROVE  /\ IsVisible(v, e, r) <=> VisibilityCondition(v, e, r)
         /\ IsVisible(v, e, r) <=>
              \/ v.kind = "workspace" \/ v.self = e \/ EmployerOf[e] \in v.organizations
              \/ \E a \in assignments : a.employee = e /\ HostCondition(a, v.organizations, r)
<1>1. e # None
  BY EmploymentAssumption
<1>2. CASE v.kind = "organizations"
  BY <1>2, SameCondition DEF IsVisible, VisibilityCondition
<1>3. CASE v.kind # "organizations"
  <2>1. v.organizations = {} /\ ~\E a \in assignments : HostCondition(a, v.organizations, r)
    BY <1>3, VisibilityFits DEF HostCondition
  <2> QED
    BY <1>1, <1>3, <2>1, VisibilityFits DEF IsVisible, VisibilityCondition
<1> QED
  BY <1>2, <1>3

LEMMA ConcernedSee == ASSUME AInv PROVE SeenByThoseConcerned
<1> SUFFICES ASSUME NEW v \in Visibilities, NEW e \in Employees, NEW r \in Ranges
             PROVE  /\ IsVisible(v, e, r) <=> VisibilityCondition(v, e, r)
                    /\ r.from = r.to =>
                         (IsVisible(v, e, r) <=>
                            \/ v.kind = "workspace" \/ v.self = e
                            \/ EmployerOf[e] \in v.organizations
                            \/ HostAt(e, r.from) \in v.organizations)
                    /\ ~NeverMeets(e) =>
                         (IsVisible(v, e, r) <=>
                            \E date \in Days(r) : IsVisible(v, e, Day(date)))
  BY DEF SeenByThoseConcerned
<1> DEFINE Concerned(p) ==
      \E a \in assignments : a.employee = e /\ HostCondition(a, v.organizations, p)
<1>1. r \in [from : Int, to : Int] /\ r.from <= r.to /\ v.organizations \in SUBSET Organizations
  BY RangeIsPeriod, VisibilityFits
<1>2. \A date \in Int : Day(date) \in [from : Int, to : Int] /\ Day(date).from <= Day(date).to
  BY DEF Day
<1>3. IsVisible(v, e, r) <=>
        v.kind = "workspace" \/ v.self = e \/ EmployerOf[e] \in v.organizations \/ Concerned(r)
  BY <1>1, SeesForAPeriod
<1>4. \A date \in Int :
        IsVisible(v, e, Day(date)) <=>
          \/ v.kind = "workspace" \/ v.self = e \/ EmployerOf[e] \in v.organizations
          \/ Concerned(Day(date))
  BY <1>2, SeesForAPeriod
<1>5. r.from = r.to => (Concerned(r) <=> HostAt(e, r.from) \in v.organizations)
  <2> SUFFICES ASSUME r.from = r.to PROVE Concerned(r) <=> HostAt(e, r.from) \in v.organizations
    OBVIOUS
  <2>1. r = Day(r.from)
    BY <1>1 DEF Day
  <2> QED
    BY <1>1, <2>1, HostIsTheOne
<1>6. ~NeverMeets(e) => (Concerned(r) <=> \E date \in Days(r) : Concerned(Day(date)))
  BY <1>1, SomeDateIsShared DEF NeverMeets, HostCondition
<1>7. r.from \in Days(r) /\ \A date \in Days(r) : date \in Int
  BY <1>1 DEF Days
<1> HIDE DEF Concerned
<1>8. IsVisible(v, e, r) <=> VisibilityCondition(v, e, r)
  BY <1>1, SeesForAPeriod
<1> QED
  BY <1>3, <1>4, <1>5, <1>6, <1>7, <1>8

(***************************************************************************)
(* A screen and an export agree on whom a user sees, for any organizations,*)
(* contracts and dates, and both are about the hosts an employee works for *)
(* on the dates of the range (employee-visibility.ts, assignment.ts).      *)
(***************************************************************************)
THEOREM ThoseConcernedSee == EmploymentSpec => []SeenByThoseConcerned
BY AlwaysAInv, ConcernedSee, PTL

-----------------------------------------------------------------------------
(***************************************************************************)
(* Periods.  First what numbers and finite sets need.                      *)
(***************************************************************************)
\* What holds of 0 and is kept by adding 1 holds of every number up to N.
LEMMA Climb ==
  ASSUME NEW N \in Nat, NEW S, 0 \in S, \A n \in Nat : n < N /\ n \in S => n + 1 \in S
  PROVE  \A n \in 0 .. N : n \in S
<1> DEFINE T == {n \in 0 .. N : n \notin S}
<1> SUFFICES ASSUME T # {} PROVE FALSE
  OBVIOUS
<1>1. T \subseteq Nat
  OBVIOUS
<1>2. PICK x \in T : \A y \in T : ~(<<y, x>> \in OpToRel(<, Nat))
  BY <1>1, NatLessThanWellFounded, WFMin
<1>3. \A y \in T : x <= y
  <2>1. \A y \in T : <<y, x>> \in Nat \X Nat /\ <<y, x>>[1] = y /\ <<y, x>>[2] = x
    BY <1>1
  <2>2. \A y \in T : ~(y < x)
    BY <1>2, <2>1 DEF OpToRel
  <2> QED
    BY <1>1, <2>2
<1>4. x \in Nat /\ x <= N /\ x # 0 /\ x \notin S
  OBVIOUS
<1>5. x - 1 \in Nat /\ x - 1 < N /\ x - 1 \notin T
  BY <1>3, <1>4
<1>6. x - 1 \in S
  BY <1>4, <1>5
<1> QED
  BY <1>4, <1>5, <1>6

\* What holds of the empty set, and of each set of which it holds without any one of its elements.
LEMMA OneLess ==
  ASSUME NEW S, IsFiniteSet(S), NEW Q, {} \in Q,
         \A s \in SUBSET S : s # {} /\ (\A x \in s : s \ {x} \in Q) => s \in Q
  PROVE  S \in Q
<1> DEFINE T == {n \in Nat : \A s \in SUBSET S : Cardinality(s) = n => s \in Q}
<1>1. Cardinality(S) \in Nat
  BY FS_CardinalityType
<1>2. 0 \in T
  <2>1. \A s \in SUBSET S : Cardinality(s) = 0 => s = {}
    BY FS_EmptySet, FS_Subset
  <2> QED
    BY <2>1
<1>3. ASSUME NEW n \in Nat, n \in T PROVE n + 1 \in T
  <2>1. ASSUME NEW s \in SUBSET S, Cardinality(s) = n + 1 PROVE s \in Q
    <3>1. IsFiniteSet(s)
      BY FS_Subset
    <3>2. n + 1 # 0 /\ (n + 1) - 1 = n
      OBVIOUS
    <3>3. s # {}
      BY <2>1, <3>2, FS_EmptySet
    <3>4. ASSUME NEW x \in s PROVE s \ {x} \in Q
      <4>1. Cardinality(s \ {x}) = Cardinality(s) - 1
        BY <3>1, FS_RemoveElement
      <4>2. s \ {x} \in SUBSET S
        OBVIOUS
      <4>3. Cardinality(s \ {x}) = n
        BY <2>1, <3>2, <4>1
      <4> QED
        BY <1>3, <4>2, <4>3
    <3> QED
      BY <3>3, <3>4
  <2> QED
    BY <2>1
<1> HIDE DEF T
<1>4. \A n \in 0 .. Cardinality(S) : n \in T
  BY <1>1, <1>2, <1>3, Climb
<1>5. Cardinality(S) \in T
  BY <1>1, <1>4
<1> QED
  BY <1>5 DEF T

\* A finite set of numbers has a largest element.
LEMMA LargestOf ==
  ASSUME NEW S \in SUBSET Int, IsFiniteSet(S), S # {}
  PROVE  Max(S) \in S /\ \A y \in S : y <= Max(S)
<1> DEFINE Q == {s \in SUBSET S : s # {} => \E m \in s : \A y \in s : y <= m}
<1>1. {} \in Q
  OBVIOUS
<1>2. ASSUME NEW s \in SUBSET S, s # {}, \A x \in s : s \ {x} \in Q PROVE s \in Q
  <2>0. PICK x \in s : s \ {x} \in Q
    BY <1>2
  <2>1. CASE s \ {x} = {}
    <3>1. \A y \in s : y <= x
      BY <2>1
    <3> QED
      BY <3>1
  <2>2. CASE s \ {x} # {}
    <3>1. PICK m \in s \ {x} : \A y \in s \ {x} : y <= m
      BY <2>0, <2>2
    <3>2. m \in Int /\ x \in Int /\ s \subseteq Int
      OBVIOUS
    <3>3. CASE m <= x
      <4>1. \A y \in s : y <= x
        BY <3>1, <3>2, <3>3
      <4> QED
        BY <4>1
    <3>4. CASE x <= m
      <4>1. \A y \in s : y <= m
        BY <3>1, <3>2, <3>4
      <4> QED
        BY <3>1, <4>1
    <3> QED
      BY <3>2, <3>3, <3>4
  <2> QED
    BY <2>1, <2>2
<1> HIDE DEF Q
<1>3. S \in Q
  BY <1>1, <1>2, OneLess
<1>4. \E m \in S : \A y \in S : m >= y
  BY <1>3 DEF Q
<1>5. Max(S) \in S /\ \A y \in S : Max(S) >= y
  BY <1>4 DEF Max
<1> QED
  BY <1>5

LEMMA SmallestOf ==
  ASSUME NEW S \in SUBSET Int, IsFiniteSet(S), S # {}
  PROVE  Min(S) \in S /\ \A y \in S : Min(S) <= y
<1> DEFINE T == {0 - x : x \in S}
<1>1. T \in SUBSET Int /\ T # {}
  OBVIOUS
<1>2. IsFiniteSet(T)
  <2>1. PICK f : f = [x \in S |-> 0 - x]
    OBVIOUS
  <2>2. f \in Surjection(S, T)
    BY <2>1 DEF Surjection
  <2> QED
    BY <2>2, FS_Surjection
<1> HIDE DEF T
<1>3. PICK m \in T : \A y \in T : y <= m
  BY <1>1, <1>2, LargestOf
<1>4. PICK x \in S : m = 0 - x
  BY DEF T
<1>5. \A y \in S : x <= y
  <2>1. \A y \in S : 0 - y <= 0 - x
    BY <1>3, <1>4 DEF T
  <2> QED
    BY <2>1
<1>6. Min(S) \in S /\ \A y \in S : Min(S) <= y
  BY <1>5 DEF Min
<1> QED
  BY <1>6

\* Of some natural numbers one is the least.
LEMMA LeastOf ==
  ASSUME NEW S \in SUBSET Nat, S # {}
  PROVE  \E x \in S : \A y \in S : x <= y
<1>1. PICK x \in S : \A y \in S : ~(<<y, x>> \in OpToRel(<, Nat))
  BY NatLessThanWellFounded, WFMin
<1>2. \A y \in S : <<y, x>> \in Nat \X Nat /\ <<y, x>>[1] = y /\ <<y, x>>[2] = x
  OBVIOUS
<1>3. \A y \in S : ~(y < x)
  BY <1>1, <1>2 DEF OpToRel
<1> QED
  BY <1>3

-----------------------------------------------------------------------------
(***************************************************************************)
(* A recursive function whose argument comes nearer to a leaf each time.   *)
(***************************************************************************)
Recurs(f, D, base, leaves, next, step) ==
  \A c \in D : f[c] = IF c \in leaves THEN base ELSE step[c][f[next[c]]]

\* What it is on the arguments that are at most n calls away from a leaf.
RecursUpto(f, D, base, leaves, next, step, rank, n) ==
  \A c \in D : rank[c] <= n => f[c] = IF c \in leaves THEN base ELSE step[c][f[next[c]]]

Nears(D, leaves, next, rank) ==
  /\ next \in [D -> D] /\ rank \in [D -> Nat]
  /\ \A c \in D : c \notin leaves => rank[next[c]] < rank[c]

LEMMA RecursionReaches ==
  ASSUME NEW D, NEW X, NEW base \in X, NEW leaves, NEW next, NEW rank, NEW step \in [D -> [X -> X]],
         Nears(D, leaves, next, rank), NEW N \in Nat
  PROVE  \E f \in [D -> X] : RecursUpto(f, D, base, leaves, next, step, rank, N)
<1> DEFINE Q == {n \in Nat : \E f \in [D -> X] :
                                RecursUpto(f, D, base, leaves, next, step, rank, n)}
<1>0. /\ next \in [D -> D] /\ rank \in [D -> Nat]
      /\ \A c \in D : c \notin leaves => rank[next[c]] < rank[c]
  BY DEF Nears
<1>1. 0 \in Q
  <2>1. PICK f : f = [c \in D |-> base]
    OBVIOUS
  <2>2. \A c \in D : rank[c] <= 0 => c \in leaves
    BY <1>0
  <2>3. f \in [D -> X] /\ RecursUpto(f, D, base, leaves, next, step, rank, 0)
    BY <2>1, <2>2 DEF RecursUpto
  <2> QED
    BY <2>3
<1>2. ASSUME NEW n \in Nat, n < N, n \in Q PROVE n + 1 \in Q
  <2>1. PICK f \in [D -> X] : RecursUpto(f, D, base, leaves, next, step, rank, n)
    BY <1>2
  <2>2. PICK g : g = [c \in D |-> IF c \in leaves THEN base ELSE step[c][f[next[c]]]]
    OBVIOUS
  <2>3. g \in [D -> X]
    <3>1. ASSUME NEW c \in D PROVE step[c][f[next[c]]] \in X
      <4>1. step[c] \in [X -> X] /\ next[c] \in D
        BY <1>0
      <4> QED
        BY <4>1
    <3> QED
      BY <2>2, <3>1
  <2>4. ASSUME NEW c \in D, rank[c] <= n + 1
        PROVE  g[c] = IF c \in leaves THEN base ELSE step[c][g[next[c]]]
    <3>1. CASE c \in leaves
      BY <2>2, <3>1
    <3>2. CASE c \notin leaves
      <4>1. next[c] \in D /\ rank[next[c]] <= n
        BY <1>0, <2>4, <3>2
      <4>2. g[next[c]] = f[next[c]]
        BY <2>1, <2>2, <4>1 DEF RecursUpto
      <4> QED
        BY <2>2, <3>2, <4>2
    <3> QED
      BY <3>1, <3>2
  <2>5. RecursUpto(g, D, base, leaves, next, step, rank, n + 1)
    BY <2>4 DEF RecursUpto
  <2> QED
    BY <2>3, <2>5
<1> HIDE DEF Q
<1>3. N \in 0 .. N
  OBVIOUS
<1>4. N \in Q
  BY <1>1, <1>2, <1>3, Climb
<1> QED
  BY <1>4 DEF Q

LEMMA RecursionAgrees ==
  ASSUME NEW D, NEW base, NEW leaves, NEW next, NEW rank, NEW step,
         Nears(D, leaves, next, rank),
         NEW m \in Nat, NEW f, RecursUpto(f, D, base, leaves, next, step, rank, m),
         NEW n \in Nat, NEW g, RecursUpto(g, D, base, leaves, next, step, rank, n),
         NEW d \in D, rank[d] <= m, rank[d] <= n
  PROVE  f[d] = g[d]
<1>0. /\ next \in [D -> D] /\ rank \in [D -> Nat]
      /\ \A c \in D : c \notin leaves => rank[next[c]] < rank[c]
  BY DEF Nears
<1> DEFINE Q == {k \in Nat : \A c \in D :
                                rank[c] <= k /\ rank[c] <= m /\ rank[c] <= n => f[c] = g[c]}
<1>1. 0 \in Q
  <2>1. \A c \in D : rank[c] <= 0 => c \in leaves
    BY <1>0
  <2> QED
    BY <2>1 DEF RecursUpto
<1>2. ASSUME NEW k \in Nat, k < rank[d], k \in Q PROVE k + 1 \in Q
  <2>1. ASSUME NEW c \in D, rank[c] <= k + 1, rank[c] <= m, rank[c] <= n PROVE f[c] = g[c]
    <3>1. CASE c \in leaves
      BY <2>1, <3>1 DEF RecursUpto
    <3>2. CASE c \notin leaves
      <4>1. next[c] \in D /\ rank[next[c]] < rank[c] /\ rank[c] \in Nat /\ rank[next[c]] \in Nat
        BY <1>0, <3>2
      <4>2. f[next[c]] = g[next[c]]
        BY <1>2, <2>1, <4>1
      <4> QED
        BY <2>1, <3>2, <4>2 DEF RecursUpto
    <3> QED
      BY <3>1, <3>2
  <2> QED
    BY <2>1
<1>3. rank[d] \in Nat /\ rank[d] \in 0 .. rank[d]
  BY <1>0
<1> HIDE DEF Q
<1>4. rank[d] \in Q
  BY <1>1, <1>2, <1>3, Climb
<1> QED
  BY <1>3, <1>4 DEF Q

LEMMA RecursionExists ==
  ASSUME NEW D, NEW X, NEW base \in X, NEW leaves, NEW next, NEW rank, NEW step \in [D -> [X -> X]],
         Nears(D, leaves, next, rank)
  PROVE  \E f \in [D -> X] : Recurs(f, D, base, leaves, next, step)
<1>0. /\ next \in [D -> D] /\ rank \in [D -> Nat]
      /\ \A c \in D : c \notin leaves => rank[next[c]] < rank[c]
  BY DEF Nears
<1> DEFINE H == [n \in Nat |-> CHOOSE f \in [D -> X] :
                                 RecursUpto(f, D, base, leaves, next, step, rank, n)]
<1>1. \A n \in Nat : H[n] \in [D -> X] /\ RecursUpto(H[n], D, base, leaves, next, step, rank, n)
  BY RecursionReaches
<1> HIDE DEF H
<1>2. PICK f : f = [c \in D |-> H[rank[c]][c]]
  OBVIOUS
<1>3. f \in [D -> X]
  BY <1>0, <1>1, <1>2
<1>4. ASSUME NEW c \in D PROVE f[c] = IF c \in leaves THEN base ELSE step[c][f[next[c]]]
  <2>1. rank[c] \in Nat /\ rank[c] <= rank[c]
    BY <1>0
  <2>2. f[c] = H[rank[c]][c]
    BY <1>2
  <2>3. RecursUpto(H[rank[c]], D, base, leaves, next, step, rank, rank[c])
    BY <1>1, <2>1
  <2>4. H[rank[c]][c] = IF c \in leaves THEN base ELSE step[c][H[rank[c]][next[c]]]
    BY <2>1, <2>3 DEF RecursUpto
  <2>5. ASSUME c \notin leaves PROVE H[rank[c]][next[c]] = f[next[c]]
    <3>1. PICK e \in D : e = next[c]
      BY <1>0
    <3>2. rank[e] \in Nat /\ rank[e] <= rank[e] /\ rank[e] <= rank[c]
      BY <1>0, <2>5, <3>1
    <3>3. RecursUpto(H[rank[e]], D, base, leaves, next, step, rank, rank[e])
      BY <1>1, <3>2
    <3>4. PICK m \in Nat, n \in Nat : m = rank[c] /\ n = rank[e]
      BY <2>1, <3>2
    <3>h. PICK h, g : h = H[rank[c]] /\ g = H[rank[e]]
      OBVIOUS
    <3>5. /\ RecursUpto(h, D, base, leaves, next, step, rank, m)
          /\ RecursUpto(g, D, base, leaves, next, step, rank, n)
          /\ rank[e] <= m /\ rank[e] <= n
      BY <2>3, <3>2, <3>3, <3>4, <3>h
    <3>6. h[e] = g[e]
      BY <3>5, RecursionAgrees
    <3>7. H[rank[c]][e] = H[rank[e]][e]
      BY <3>h, <3>6
    <3> QED
      BY <1>2, <3>1, <3>7
  <2> QED
    BY <2>2, <2>4, <2>5
<1> QED
  BY <1>3, <1>4 DEF Recurs

-----------------------------------------------------------------------------
(***************************************************************************)
(* Weeks.                                                                  *)
(***************************************************************************)
LEMMA Remainders ==
  ASSUME NEW x \in Int
  PROVE  /\ x % WeekLength \in Int /\ 0 <= x % WeekLength /\ x % WeekLength < WeekLength
         /\ x \div WeekLength \in Int
         /\ x = WeekLength * (x \div WeekLength) + (x % WeekLength)
<1>1. PICK n \in Nat \ {0} : n = WeekLength
  BY PeriodsAssumption
<1>2. /\ x % n \in Int /\ 0 <= x % n /\ x % n < n
      /\ x \div n \in Int
  OBVIOUS
<1>3. x = n * (x \div n) + (x % n)
  OBVIOUS
<1> QED
  BY <1>1, <1>2, <1>3

\* A date has one quotient and one remainder.
LEMMA OneRemainder ==
  ASSUME NEW q \in Int, NEW r \in Int, NEW a \in Int, NEW b \in Int,
         0 <= a, a < WeekLength, 0 <= b, b < WeekLength,
         WeekLength * q + a = WeekLength * r + b
  PROVE  a = b
<1>1. q = r
  BY PeriodsAssumption
<1> QED
  BY <1>1, PeriodsAssumption

\* A week of one version: it holds the date, and its dates have the same start.
LEMMA WeekStarts ==
  ASSUME NEW d \in Int, NEW w \in Int, NEW s, s = WeekStartOf(d, w)
  PROVE  /\ s \in Int /\ s <= d /\ d < s + WeekLength
         /\ \A e \in Int : s <= e /\ e < s + WeekLength => WeekStartOf(e, w) = s
         /\ WeekStartOf(s + WeekLength, w) = s + WeekLength
<1>0. WeekLength \in Nat /\ WeekLength > 0
  BY PeriodsAssumption
<1>1. PICK q \in Int, a \in Int :
        0 <= a /\ a < WeekLength /\ d - w = WeekLength * q + a /\ a = (d - w) % WeekLength
  <2>1. PICK x \in Int : x = d - w
    OBVIOUS
  <2>2. PICK q, a : q = x \div WeekLength /\ a = x % WeekLength
    OBVIOUS
  <2>3. /\ q \in Int /\ a \in Int
        /\ 0 <= a /\ a < WeekLength /\ x = WeekLength * q + a /\ a = x % WeekLength
    BY <2>2, Remainders
  <2> QED
    BY <2>1, <2>3
<1>2. s = d - a
  BY <1>1 DEF WeekStartOf
<1>3. s = w + WeekLength * q
  BY <1>0, <1>1, <1>2
<1>4. ASSUME NEW e \in Int, NEW r \in Int, NEW b \in Int, 0 <= b, b < WeekLength,
             e - w = WeekLength * r + b
      PROVE  WeekStartOf(e, w) = e - b
  <2>1. PICK p \in Int, c \in Int :
          0 <= c /\ c < WeekLength /\ e - w = WeekLength * p + c /\ c = (e - w) % WeekLength
    <3>1. PICK x \in Int : x = e - w
      OBVIOUS
    <3>2. PICK p, c : p = x \div WeekLength /\ c = x % WeekLength
      OBVIOUS
    <3>3. /\ p \in Int /\ c \in Int
          /\ 0 <= c /\ c < WeekLength /\ x = WeekLength * p + c /\ c = x % WeekLength
      BY <3>2, Remainders
    <3> QED
      BY <3>1, <3>3
  <2>2. c = b
    BY <1>4, <2>1, OneRemainder
  <2> QED
    BY <2>1, <2>2 DEF WeekStartOf
<1>5. ASSUME NEW e \in Int, s <= e, e < s + WeekLength PROVE WeekStartOf(e, w) = s
  <2>1. e - s \in Int /\ 0 <= e - s /\ e - s < WeekLength /\ s \in Int
    BY <1>0, <1>1, <1>2, <1>5
  <2>2. e - w = WeekLength * q + (e - s)
    BY <1>0, <1>3, <2>1
  <2>3. WeekStartOf(e, w) = e - (e - s)
    BY <1>4, <2>1, <2>2
  <2> QED
    BY <2>1, <2>3
<1>6. WeekStartOf(s + WeekLength, w) = s + WeekLength
  <2>1. s + WeekLength \in Int /\ s \in Int
    BY <1>0, <1>1, <1>2
  <2>2. (s + WeekLength) - w = WeekLength * (q + 1) + 0
    BY <1>0, <1>3, <2>1
  <2>3. q + 1 \in Int
    BY <1>1
  <2>4. 0 \in Int /\ 0 <= 0 /\ 0 < WeekLength
    BY <1>0
  <2>5. WeekStartOf(s + WeekLength, w) = (s + WeekLength) - 0
    BY <1>4, <2>1, <2>2, <2>3, <2>4
  <2> QED
    BY <2>1, <2>5
<1> QED
  BY <1>0, <1>1, <1>2, <1>5, <1>6

\* Of the versions that have begun, what the newest says.
NewestOf(known) ==
  IF known = {} THEN 0
  ELSE (CHOOSE v \in known : \A w \in known : w.effectiveFrom <= v.effectiveFrom).weekStartsOn

LEMMA NewestCounts ==
  ASSUME NEW vs, NEW d PROVE WeekStartsOnAt(vs, d) = NewestOf({v \in vs : v.effectiveFrom <= d})
  BY Zenon DEF WeekStartsOnAt, NewestOf

\* The version of a date counts until another takes effect.
LEMMA SameVersion ==
  ASSUME NEW vs \in SUBSET Versions, NEW c \in Int, NEW d \in Int, c <= d,
         \A v \in vs : ~(c < v.effectiveFrom /\ v.effectiveFrom <= d)
  PROVE  WeekStartsOnAt(vs, d) = WeekStartsOnAt(vs, c)
<1>1. \A v \in vs : v.effectiveFrom \in Int
  BY DEF Versions
<1>2. {v \in vs : v.effectiveFrom <= d} = {v \in vs : v.effectiveFrom <= c}
  BY <1>1
<1> QED
  BY <1>2, NewestCounts, Zenon

LEMMA VersionCounts ==
  ASSUME NEW vs \in SUBSET Versions, IsFiniteSet(vs), NEW d \in Int
  PROVE  WeekStartsOnAt(vs, d) \in Int
<1> DEFINE early == {v \in vs : v.effectiveFrom <= d}
           dates == {v.effectiveFrom : v \in early}
<1>1. CASE early = {}
  BY <1>1 DEF WeekStartsOnAt
<1>2. CASE early # {}
  <2>1. IsFiniteSet(early)
    BY FS_Subset
  <2>2. IsFiniteSet(dates)
    <3> HIDE DEF early
    <3>1. PICK f : f = [v \in early |-> v.effectiveFrom]
      OBVIOUS
    <3>2. f \in Surjection(early, dates)
      BY <3>1 DEF Surjection
    <3> QED
      BY <2>1, <3>2, FS_Surjection
  <2>3. dates \in SUBSET Int /\ dates # {}
    BY <1>2 DEF Versions
  <2>4. PICK m \in dates : \A y \in dates : y <= m
    <3> HIDE DEF dates
    <3> QED
      BY <2>2, <2>3, LargestOf
  <2>5. \E v \in early : \A w \in early : w.effectiveFrom <= v.effectiveFrom
    BY <2>4
  <2>6. PICK v \in early :
          v = CHOOSE x \in early : \A w \in early : w.effectiveFrom <= x.effectiveFrom
    BY <2>5
  <2>7. v.weekStartsOn \in Int
    BY DEF Versions
  <2> QED
    BY <1>2, <2>6, <2>7 DEF WeekStartsOnAt
<1> QED
  BY <1>1, <1>2

\* A week begins on a date.
Begins(vs, d) ==
  \/ \E v \in vs : v.effectiveFrom = d
  \/ WeekStartOf(d, WeekStartsOnAt(vs, d)) = d

\* A week ends before the next one begins, wherever it is begun.
LEMMA WeekEnds ==
  ASSUME NEW vs \in SUBSET Versions, IsFiniteSet(vs), NEW c \in Int, NEW e, e = WeekEnd(vs, c)
  PROVE  /\ e \in Int /\ c <= e /\ Begins(vs, e + 1)
         /\ \A d \in c + 1 .. e : ~Begins(vs, d)
<1>1. PICK w \in Int : w = WeekStartsOnAt(vs, c)
  BY VersionCounts
<1> PICK s : s = WeekStartOf(c, w)
  OBVIOUS
<1>2. /\ s \in Int /\ s <= c /\ c < s + WeekLength
      /\ \A d \in Int : s <= d /\ d < s + WeekLength => WeekStartOf(d, w) = s
      /\ WeekStartOf(s + WeekLength, w) = s + WeekLength
  BY WeekStarts
<1>3. WeekLength \in Int /\ WeekLength > 0
  BY PeriodsAssumption
<1>4. PICK aligned \in Int : aligned = s + WeekLength - 1
  BY <1>2, <1>3
<1> DEFINE cut == {v.effectiveFrom - 1 : v \in {x \in vs : x.effectiveFrom \in c + 1 .. aligned}}
           ends == {aligned} \union cut
<1>5. e = Min(ends)
  BY <1>1, <1>2, <1>4 DEF WeekEnd
<1>6. \A x \in ends : x \in Int /\ c <= x /\ x <= aligned
  BY <1>2, <1>3, <1>4 DEF Versions
<1>7. IsFiniteSet(ends)
  <2>1. ends \in SUBSET (c .. aligned)
    BY <1>6
  <2> QED
    BY <2>1, FS_Interval, FS_Subset
<1>8. e \in ends /\ \A y \in ends : e <= y
  <2>1. ends \in SUBSET Int /\ ends # {}
    BY <1>6
  <2> HIDE DEF ends
  <2> QED
    BY <1>5, <1>7, <2>1, SmallestOf
<1>9. e \in Int /\ c <= e /\ e <= aligned
  BY <1>6, <1>8
<1>10. \A v \in vs : ~(c < v.effectiveFrom /\ v.effectiveFrom <= e)
  <2>1. SUFFICES ASSUME NEW v \in vs, c < v.effectiveFrom, v.effectiveFrom <= e PROVE FALSE
    OBVIOUS
  <2>2. v.effectiveFrom \in Int
    BY DEF Versions
  <2>3. v.effectiveFrom \in c + 1 .. aligned
    BY <1>9, <2>1, <2>2
  <2>4. v.effectiveFrom - 1 \in ends
    BY <2>3
  <2> QED
    BY <1>8, <1>9, <2>1, <2>2, <2>4
<1>11. Begins(vs, e + 1)
  <2>1. CASE e \in cut
    <3>1. PICK v \in vs : e = v.effectiveFrom - 1
      BY <2>1
    <3>2. v.effectiveFrom = e + 1
      BY <3>1 DEF Versions
    <3> QED
      BY <3>2 DEF Begins
  <2>2. CASE e = aligned /\ \E v \in vs : v.effectiveFrom = e + 1
    BY <2>2 DEF Begins
  <2>3. CASE e = aligned /\ ~\E v \in vs : v.effectiveFrom = e + 1
    <3>1. e + 1 \in Int /\ e + 1 = s + WeekLength /\ c <= e + 1
      BY <1>2, <1>3, <1>4, <1>9, <2>3
    <3>2. \A v \in vs : ~(c < v.effectiveFrom /\ v.effectiveFrom <= e + 1)
      BY <1>9, <1>10, <2>3 DEF Versions
    <3>3. WeekStartsOnAt(vs, e + 1) = w
      BY <1>1, <3>1, <3>2, SameVersion
    <3> QED
      BY <1>2, <3>1, <3>3 DEF Begins
  <2> QED
    BY <1>8, <2>1, <2>2, <2>3
<1>12. ASSUME NEW d \in c + 1 .. e PROVE ~Begins(vs, d)
  <2>1. d \in Int /\ c < d /\ d <= e /\ c <= d
    BY <1>9
  <2>2. ~\E v \in vs : v.effectiveFrom = d
    BY <1>10, <2>1
  <2>3. \A v \in vs : ~(c < v.effectiveFrom /\ v.effectiveFrom <= d)
    BY <1>9, <1>10, <2>1 DEF Versions
  <2>4. WeekStartsOnAt(vs, d) = w
    BY <1>1, <2>1, <2>3, SameVersion
  <2>5. s <= d /\ d < s + WeekLength /\ s # d
    BY <1>2, <1>3, <1>4, <1>9, <2>1
  <2> QED
    BY <1>2, <2>1, <2>2, <2>4, <2>5 DEF Begins
<1> QED
  BY <1>9, <1>11, <1>12

Spans == [from : Int, to : Int]

\* What the weeks from a date on are.
WeeksFrom(vs, to, c, weeks) ==
  /\ weeks \in Seq(Spans)
  /\ IF c > to THEN weeks = <<>>
     ELSE /\ weeks # <<>> /\ weeks[1].from = c /\ to <= weeks[Len(weeks)].to
          /\ FollowOneAnother(weeks)
          /\ \A i \in 1 .. Len(weeks) : weeks[i].to = WeekEnd(vs, weeks[i].from)

WeekAndMore(vs, c, rest) == <<[from |-> c, to |-> WeekEnd(vs, c)]>> \o rest

\* The function that WeeksBetween defines.
CutsWeeks(vs, to, f) ==
  f = [cursor \in Int |->
         IF cursor > to THEN <<>>
         ELSE LET end == WeekEnd(vs, cursor)
              IN <<[from |-> cursor, to |-> end]>> \o f[end + 1]]

LEMMA WeeksAreCut ==
  ASSUME NEW vs \in SUBSET Versions, IsFiniteSet(vs), NEW to \in Int
  PROVE  \E f : CutsWeeks(vs, to, f) /\ \A c \in Int : f[c] \in Seq(Spans)
<1> DEFINE X == Seq(Spans)
           leaves == {c \in Int : c > to}
           next == [c \in Int |-> WeekEnd(vs, c) + 1]
           rank == [c \in Int |-> IF c > to THEN 0 ELSE to - c + 1]
           step == [c \in Int |-> [rest \in X |-> WeekAndMore(vs, c, rest)]]
<1>1. \A c \in Int : WeekEnd(vs, c) \in Int /\ c <= WeekEnd(vs, c)
  BY WeekEnds
<1>2. Nears(Int, leaves, next, rank)
  <2>1. next \in [Int -> Int] /\ rank \in [Int -> Nat]
    BY <1>1
  <2>2. ASSUME NEW c \in Int, c \notin leaves PROVE rank[next[c]] < rank[c]
    <3>1. next[c] \in Int /\ next[c] > c /\ c <= to
      BY <1>1, <2>2
    <3> HIDE DEF next
    <3> QED
      BY <3>1
  <2> QED
    BY <2>1, <2>2 DEF Nears
<1>3. step \in [Int -> [X -> X]]
  <2>1. ASSUME NEW c \in Int, NEW rest \in X PROVE WeekAndMore(vs, c, rest) \in X
    <3>1. [from |-> c, to |-> WeekEnd(vs, c)] \in Spans
      BY <1>1 DEF Spans
    <3> QED
      BY <3>1 DEF WeekAndMore
  <2> QED
    BY <2>1
<1>4. PICK base : base = <<>> /\ base \in X
  <2> <<>> \in Seq(Spans)
    OBVIOUS
  <2> QED
    OBVIOUS
<1>5. \E f \in [Int -> X] : Recurs(f, Int, base, leaves, next, step)
  <2> HIDE DEF X, leaves, next, rank, step
  <2> QED
    BY <1>2, <1>3, <1>4, RecursionExists
<1>6. PICK f \in [Int -> X] : Recurs(f, Int, base, leaves, next, step)
  BY <1>5
<1>7. ASSUME NEW c \in Int
      PROVE  f[c] = IF c > to THEN <<>>
                    ELSE LET end == WeekEnd(vs, c)
                         IN <<[from |-> c, to |-> end]>> \o f[end + 1]
  <2>1. f[c] = IF c \in leaves THEN <<>> ELSE step[c][f[next[c]]]
    BY <1>4, <1>6 DEF Recurs
  <2>2. CASE c > to
    BY <2>1, <2>2
  <2>3. CASE ~(c > to)
    <3>1. f[c] = step[c][f[next[c]]]
      BY <2>1, <2>3
    <3>2. next[c] \in Int /\ next[c] = WeekEnd(vs, c) + 1
      BY <1>1
    <3>3. f[next[c]] \in X
      BY <3>2
    <3>4. step[c][f[next[c]]] = WeekAndMore(vs, c, f[WeekEnd(vs, c) + 1])
      BY <3>2, <3>3
    <3> HIDE DEF step, next
    <3> QED
      BY <2>3, <3>1, <3>4 DEF WeekAndMore
  <2> QED
    BY <2>2, <2>3
<1>8. CutsWeeks(vs, to, f)
  <2> f = [c \in Int |-> f[c]]
    OBVIOUS
  <2> QED
    BY <1>7 DEF CutsWeeks
<1> QED
  BY <1>6, <1>8

LEMMA OneMoreWeek ==
  ASSUME NEW vs, NEW to \in Int, NEW c \in Int, c <= to, NEW e \in Int, e = WeekEnd(vs, c),
         NEW rest, WeeksFrom(vs, to, e + 1, rest), c <= e
  PROVE  WeeksFrom(vs, to, c, <<[from |-> c, to |-> e]>> \o rest)
<1> PICK w \in Spans : w = [from |-> c, to |-> e]
  BY DEF Spans
<1> PICK weeks : weeks = <<w>> \o rest
  OBVIOUS
<1>1. rest \in Seq(Spans)
  BY DEF WeeksFrom
<1>2. /\ weeks \in Seq(Spans) /\ Len(weeks) = Len(rest) + 1
      /\ weeks[1] = w /\ \A i \in 1 .. Len(rest) : weeks[i + 1] = rest[i]
  BY <1>1
<1>3. \A i \in 1 .. Len(weeks) : i # 1 => i - 1 \in 1 .. Len(rest) /\ weeks[i] = rest[i - 1]
  BY <1>1, <1>2
<1>4. weeks # <<>> /\ weeks[1].from = c /\ weeks[1].to = e
  BY <1>2
<1>5. to <= weeks[Len(weeks)].to
  <2>1. CASE e + 1 > to
    <3>1. rest = <<>>
      BY <2>1 DEF WeeksFrom
    <3>2. Len(weeks) = 1
      BY <1>2, <3>1
    <3> QED
      BY <1>4, <2>1, <3>2
  <2>2. CASE ~(e + 1 > to)
    <3>1. rest # <<>> /\ to <= rest[Len(rest)].to
      BY <2>2 DEF WeeksFrom
    <3>2. Len(rest) \in 1 .. Len(rest)
      BY <1>1, <3>1
    <3> QED
      BY <1>2, <3>1, <3>2
  <2> QED
    BY <2>1, <2>2
<1>6. FollowOneAnother(weeks)
  <2>1. ASSUME NEW i \in 1 .. Len(weeks) - 1 PROVE weeks[i + 1].from = weeks[i].to + 1
    <3>0. Len(rest) \in Nat /\ rest # <<>> /\ i \in 1 .. Len(rest)
      BY <1>1, <1>2
    <3>1. ~(e + 1 > to)
      BY <3>0 DEF WeeksFrom
    <3>2. rest[1].from = e + 1 /\ FollowOneAnother(rest)
      BY <3>1 DEF WeeksFrom
    <3>3. CASE i = 1
      BY <1>2, <1>4, <3>0, <3>2, <3>3
    <3>4. CASE i # 1
      <4>1. i - 1 \in 1 .. Len(rest) - 1 /\ i - 1 \in 1 .. Len(rest) /\ (i - 1) + 1 = i
        BY <3>0, <3>4
      <4>2. weeks[i + 1] = rest[i] /\ weeks[i] = rest[i - 1]
        BY <1>2, <3>0, <4>1
      <4>3. rest[i].from = rest[i - 1].to + 1
        BY <3>2, <4>1 DEF FollowOneAnother
      <4> QED
        BY <4>2, <4>3
    <3> QED
      BY <3>3, <3>4
  <2> QED
    BY <2>1 DEF FollowOneAnother
<1>7. ASSUME NEW i \in 1 .. Len(weeks) PROVE weeks[i].to = WeekEnd(vs, weeks[i].from)
  <2>1. CASE i = 1
    BY <1>4, <2>1
  <2>2. CASE i # 1
    <3>1. i - 1 \in 1 .. Len(rest) /\ weeks[i] = rest[i - 1]
      BY <1>3, <2>2
    <3>2. rest # <<>>
      BY <3>1
    <3>3. rest[i - 1].to = WeekEnd(vs, rest[i - 1].from)
      BY <3>1, <3>2 DEF WeeksFrom
    <3> QED
      BY <3>1, <3>3
  <2> QED
    BY <2>1, <2>2
<1>8. ~(c > to)
  OBVIOUS
<1>9. WeeksFrom(vs, to, c, weeks)
  BY <1>2, <1>4, <1>5, <1>6, <1>7, <1>8 DEF WeeksFrom
<1> QED
  BY <1>9

LEMMA WeeksAreMade ==
  ASSUME NEW vs \in SUBSET Versions, IsFiniteSet(vs), NEW to \in Int,
         NEW f, CutsWeeks(vs, to, f), NEW c \in Int
  PROVE  WeeksFrom(vs, to, c, f[c])
<1> DEFINE T == {n \in Nat : \A d \in Int : to - d < n => WeeksFrom(vs, to, d, f[d])}
<1>1. \A d \in Int : WeekEnd(vs, d) \in Int /\ d <= WeekEnd(vs, d)
  BY WeekEnds
<1>2. ASSUME NEW d \in Int
      PROVE  f[d] = IF d > to THEN <<>>
                    ELSE <<[from |-> d, to |-> WeekEnd(vs, d)]>> \o f[WeekEnd(vs, d) + 1]
  BY DEF CutsWeeks
<1>3. ASSUME NEW d \in Int, d > to PROVE WeeksFrom(vs, to, d, f[d])
  <2>1. f[d] = <<>>
    BY <1>2, <1>3
  <2>2. <<>> \in Seq(Spans)
    OBVIOUS
  <2> QED
    BY <1>3, <2>1, <2>2 DEF WeeksFrom
<1>4. 0 \in T
  BY <1>3
<1>5. ASSUME NEW n \in Nat, n \in T PROVE n + 1 \in T
  <2>1. ASSUME NEW d \in Int, to - d < n + 1, ~(d > to) PROVE WeeksFrom(vs, to, d, f[d])
    <3>1. PICK e \in Int : e = WeekEnd(vs, d) /\ d <= e
      BY <1>1
    <3>2. WeeksFrom(vs, to, e + 1, f[e + 1])
      <4>1. e + 1 \in Int /\ to - (e + 1) < n
        BY <2>1, <3>1
      <4> QED
        BY <1>5, <4>1
    <3>3. f[d] = <<[from |-> d, to |-> e]>> \o f[e + 1]
      BY <1>2, <2>1, <3>1
    <3>4. PICK rest : rest = f[e + 1]
      OBVIOUS
    <3>5. d <= to /\ WeeksFrom(vs, to, e + 1, rest)
      BY <2>1, <3>2, <3>4
    <3>6. WeeksFrom(vs, to, d, <<[from |-> d, to |-> e]>> \o rest)
      BY <3>1, <3>5, OneMoreWeek
    <3> QED
      BY <3>3, <3>4, <3>6
  <2> QED
    BY <1>3, <2>1
<1> HIDE DEF T
<1>6. PICK N \in Nat : to - c < N
  <2>1. CASE to - c < 0
    BY <2>1
  <2>2. CASE to - c >= 0
    <3> to - c + 1 \in Nat /\ to - c < to - c + 1
      BY <2>2
    <3> QED
      OBVIOUS
  <2> QED
    BY <2>1, <2>2
<1>7. N \in T
  BY <1>4, <1>5, <1>6, Climb
<1> QED
  BY <1>6, <1>7 DEF T

LEMMA WeeksOfRange ==
  ASSUME NEW vs \in SUBSET Versions, IsFiniteSet(vs), NEW range \in [from : Int, to : Int]
  PROVE  WeeksFrom(vs, range.to, WeekStartOf(range.from, WeekStartsOnAt(vs, range.from)),
                   WeeksBetween(vs, range))
<1>1. PICK to \in Int, date \in Int : to = range.to /\ date = range.from
  OBVIOUS
<1>2. PICK w \in Int : w = WeekStartsOnAt(vs, date)
  BY VersionCounts
<1>3. PICK s : s = WeekStartOf(date, w)
  OBVIOUS
<1>4. s \in Int
  BY <1>3, WeekStarts
<1>5. \E f : CutsWeeks(vs, to, f)
  BY WeeksAreCut
<1>6. PICK f : f = CHOOSE g : CutsWeeks(vs, to, g)
  OBVIOUS
<1>7. CutsWeeks(vs, to, f)
  BY <1>5, <1>6
<1>8. WeeksBetween(vs, range) = f[s]
  BY <1>1, <1>2, <1>3, <1>6, Zenon DEF WeeksBetween, CutsWeeks
<1>9. WeeksFrom(vs, to, s, f[s])
  BY <1>4, <1>7, WeeksAreMade
<1> QED
  BY <1>1, <1>2, <1>3, <1>8, <1>9

LEMMA SpanAt ==
  ASSUME NEW spans \in Seq(Spans), NEW i \in 1 .. Len(spans)
  PROVE  spans[i] \in Spans /\ spans[i].from \in Int /\ spans[i].to \in Int
<1>1. spans[i] \in Spans
  OBVIOUS
<1> QED
  BY <1>1 DEF Spans

\* Weeks leave no date out from the first one's start to the last one's end.
LEMMA NoGap ==
  ASSUME NEW vs, NEW to \in Int, NEW c \in Int, c <= to, NEW weeks, WeeksFrom(vs, to, c, weeks),
         NEW d \in Int, c <= d, d <= to
  PROVE  \E i \in 1 .. Len(weeks) : weeks[i].from <= d /\ d <= weeks[i].to
<1>1. /\ weeks \in Seq(Spans) /\ weeks # <<>> /\ weeks[1].from = c /\ to <= weeks[Len(weeks)].to
      /\ FollowOneAnother(weeks)
  BY DEF WeeksFrom
<1>2. \A i \in 1 .. Len(weeks) : weeks[i].from \in Int /\ weeks[i].to \in Int
  BY <1>1, SpanAt
<1> DEFINE S == {i \in 1 .. Len(weeks) : d <= weeks[i].to}
<1>3. S \in SUBSET Nat /\ S # {}
  <2>1. Len(weeks) \in 1 .. Len(weeks)
    BY <1>1
  <2>2. d <= weeks[Len(weeks)].to
    BY <1>1, <1>2, <2>1
  <2> QED
    BY <2>1, <2>2
<1>4. PICK i \in S : \A j \in S : i <= j
  <2> HIDE DEF S
  <2> QED
    BY <1>3, LeastOf
<1>5. CASE i = 1
  BY <1>1, <1>5
<1>6. CASE i # 1
  <2>1. i - 1 \in 1 .. Len(weeks) /\ i - 1 \in 1 .. Len(weeks) - 1 /\ i - 1 < i /\ (i - 1) + 1 = i
    BY <1>1, <1>6
  <2>2. i - 1 \notin S
    BY <1>4, <2>1
  <2>3. weeks[i].from = weeks[i - 1].to + 1
    BY <1>1, <2>1 DEF FollowOneAnother
  <2>4. weeks[i - 1].to < d
    BY <1>2, <2>1, <2>2
  <2> QED
    BY <1>2, <2>1, <2>3, <2>4
<1> QED
  BY <1>5, <1>6

\* From a start of a week on, each week begins where one does.
LEMMA EachBegins ==
  ASSUME NEW vs \in SUBSET Versions, IsFiniteSet(vs), NEW to \in Int, NEW c \in Int, c <= to,
         NEW weeks, WeeksFrom(vs, to, c, weeks), Begins(vs, c), NEW i \in 1 .. Len(weeks)
  PROVE  Begins(vs, weeks[i].from)
<1>1. /\ weeks \in Seq(Spans) /\ weeks # <<>> /\ weeks[1].from = c
      /\ FollowOneAnother(weeks)
      /\ \A j \in 1 .. Len(weeks) : weeks[j].to = WeekEnd(vs, weeks[j].from)
  BY DEF WeeksFrom
<1>2. CASE i = 1
  BY <1>1, <1>2
<1>3. CASE i # 1
  <2>1. i - 1 \in 1 .. Len(weeks) /\ i - 1 \in 1 .. Len(weeks) - 1 /\ (i - 1) + 1 = i
    BY <1>1, <1>3
  <2>2. PICK b \in Int : b = weeks[i - 1].from
    BY <1>1, <2>1, SpanAt
  <2>3. weeks[i].from = WeekEnd(vs, b) + 1
    BY <1>1, <2>1, <2>2 DEF FollowOneAnother
  <2>4. Begins(vs, WeekEnd(vs, b) + 1)
    BY WeekEnds
  <2> QED
    BY <2>3, <2>4
<1> QED
  BY <1>2, <1>3

\* Two weeks that begin where one does are the same or have no date in common.
LEMMA WeeksAreApart ==
  ASSUME NEW vs \in SUBSET Versions, IsFiniteSet(vs), NEW w \in Spans, NEW x \in Spans,
         Begins(vs, w.from), Begins(vs, x.from), w.to = WeekEnd(vs, w.from),
         x.to = WeekEnd(vs, x.from), NEW d \in Days(w) \intersect Days(x)
  PROVE  w = x
<1>1. /\ w.from \in Int /\ w.to \in Int /\ x.from \in Int /\ x.to \in Int /\ d \in Int
      /\ w.from <= d /\ d <= w.to /\ x.from <= d /\ d <= x.to
  BY DEF Spans, Days
<1>2. \A b \in w.from + 1 .. w.to : ~Begins(vs, b)
  BY <1>1, WeekEnds
<1>3. \A b \in x.from + 1 .. x.to : ~Begins(vs, b)
  BY <1>1, WeekEnds
<1>4. ~(w.from < x.from)
  BY <1>1, <1>2
<1>5. ~(x.from < w.from)
  BY <1>1, <1>3
<1>6. w.from = x.from
  BY <1>1, <1>4, <1>5
<1> QED
  BY <1>6 DEF Spans

\* A range that starts in a week which no version cuts begins where that week does.
LEMMA FirstWeekBegins ==
  ASSUME NEW vs \in SUBSET Versions, IsFiniteSet(vs), NEW d \in Int,
         NEW c, c = WeekStartOf(d, WeekStartsOnAt(vs, d)),
         ~\E v \in vs : v.effectiveFrom \in c + 1 .. d
  PROVE  Begins(vs, c)
<1>1. PICK w \in Int : w = WeekStartsOnAt(vs, d)
  BY VersionCounts
<1>2. /\ c \in Int /\ c <= d /\ d < c + WeekLength
      /\ \A e \in Int : c <= e /\ e < c + WeekLength => WeekStartOf(e, w) = c
  BY <1>1, WeekStarts
<1>3. \A v \in vs : ~(c < v.effectiveFrom /\ v.effectiveFrom <= d)
  BY <1>2 DEF Versions
<1>4. WeekStartsOnAt(vs, c) = w
  BY <1>1, <1>2, <1>3, SameVersion
<1>5. WeekStartOf(c, w) = c
  BY <1>2, PeriodsAssumption
<1> QED
  BY <1>4, <1>5 DEF Begins

LEMMA WeeksAlwaysTile ==
  ASSUME versions \in SUBSET Versions, IsFiniteSet(versions)
  PROVE  WeeksTile
<1>0. Ranges \in SUBSET [from : Int, to : Int] /\ \A range \in Ranges : range.from <= range.to
  BY PeriodsAssumption DEF Ranges, Dates
<1>1. ASSUME NEW range \in Ranges
      PROVE  LET weeks == WeeksBetween(versions, range) IN
             /\ FollowOneAnother(weeks)
             /\ Days(range) \subseteq weeks[1].from .. weeks[Len(weeks)].to
             /\ \A v \in versions :
                  v.effectiveFrom \in Days(range) =>
                    \E i \in DOMAIN weeks : weeks[i].from = v.effectiveFrom
  <2>1. PICK from \in Int, to \in Int : from = range.from /\ to = range.to /\ from <= to
    BY <1>0
  <2>2. PICK weeks : weeks = WeeksBetween(versions, range)
    OBVIOUS
  <2>3. PICK c : c = WeekStartOf(from, WeekStartsOnAt(versions, from))
    OBVIOUS
  <2>4. c \in Int /\ c <= from /\ c <= to
    <3>1. PICK w \in Int : w = WeekStartsOnAt(versions, from)
      BY VersionCounts
    <3>2. c \in Int /\ c <= from
      BY <2>3, <3>1, WeekStarts
    <3> QED
      BY <2>1, <3>2
  <2>5. WeeksFrom(versions, to, c, weeks)
    <3> range \in [from : Int, to : Int]
      BY <1>0
    <3> QED
      BY <2>1, <2>2, <2>3, WeeksOfRange
  <2>6. /\ weeks \in Seq(Spans) /\ weeks # <<>> /\ weeks[1].from = c /\ to <= weeks[Len(weeks)].to
        /\ FollowOneAnother(weeks)
        /\ \A j \in 1 .. Len(weeks) : weeks[j].to = WeekEnd(versions, weeks[j].from)
    BY <2>4, <2>5 DEF WeeksFrom
  <2>7. Days(range) \subseteq weeks[1].from .. weeks[Len(weeks)].to
    <3>1. weeks[Len(weeks)].to \in Int
      <4> Len(weeks) \in 1 .. Len(weeks)
        BY <2>6
      <4> QED
        BY <2>6, SpanAt
    <3> QED
      BY <2>1, <2>4, <2>6, <3>1 DEF Days
  <2>8. ASSUME NEW v \in versions, v.effectiveFrom \in Days(range)
        PROVE  \E i \in DOMAIN weeks : weeks[i].from = v.effectiveFrom
    <3>1. PICK d \in Int : d = v.effectiveFrom
      BY DEF Versions
    <3>2. c <= d /\ d <= to
      BY <2>1, <2>4, <2>8, <3>1 DEF Days
    <3>3. PICK i \in 1 .. Len(weeks) : weeks[i].from <= d /\ d <= weeks[i].to
      BY <2>4, <2>5, <3>2, NoGap
    <3>4. PICK b \in Int, e \in Int : b = weeks[i].from /\ e = weeks[i].to
      BY <2>6, SpanAt
    <3>5. \A x \in b + 1 .. e : ~Begins(versions, x)
      <4>1. e = WeekEnd(versions, b)
        BY <2>6, <3>4
      <4> QED
        BY <4>1, WeekEnds
    <3>6. Begins(versions, d)
      BY <3>1 DEF Begins
    <3>7. b = d
      BY <3>3, <3>4, <3>5, <3>6
    <3>8. i \in DOMAIN weeks
      BY <2>6
    <3> QED
      BY <3>1, <3>4, <3>7, <3>8
  <2> QED
    BY <2>2, <2>6, <2>7, <2>8
<1>2. ASSUME NEW range \in Ranges, ~StartsInAChangedWeek(range),
             NEW w \in ToSet(WeeksBetween(versions, range))
      PROVE  w \in Spans /\ Begins(versions, w.from) /\ w.to = WeekEnd(versions, w.from)
  <2>1. PICK from \in Int, to \in Int : from = range.from /\ to = range.to /\ from <= to
    BY <1>0
  <2>2. PICK weeks : weeks = WeeksBetween(versions, range)
    OBVIOUS
  <2>3. PICK c : c = WeekStartOf(from, WeekStartsOnAt(versions, from))
    OBVIOUS
  <2>4. c \in Int /\ c <= from /\ c <= to
    <3>1. PICK u \in Int : u = WeekStartsOnAt(versions, from)
      BY VersionCounts
    <3>2. c \in Int /\ c <= from
      BY <2>3, <3>1, WeekStarts
    <3> QED
      BY <2>1, <3>2
  <2>5. WeeksFrom(versions, to, c, weeks)
    <3> range \in [from : Int, to : Int]
      BY <1>0
    <3> QED
      BY <2>1, <2>2, <2>3, WeeksOfRange
  <2>6. Begins(versions, c)
    BY <1>2, <2>1, <2>3, FirstWeekBegins DEF StartsInAChangedWeek
  <2>7. /\ weeks \in Seq(Spans)
        /\ \A j \in 1 .. Len(weeks) : weeks[j].to = WeekEnd(versions, weeks[j].from)
    BY <2>4, <2>5 DEF WeeksFrom
  <2>8. PICK i \in 1 .. Len(weeks) : w = weeks[i]
    BY <1>2, <2>2, <2>7 DEF ToSet
  <2>9. Begins(versions, weeks[i].from)
    BY <2>4, <2>5, <2>6, EachBegins
  <2> QED
    BY <2>7, <2>8, <2>9
<1> DEFINE seen == UNION {ToSet(WeeksBetween(versions, range)) :
                            range \in {r \in Ranges : ~StartsInAChangedWeek(r)}}
<1>3. ASSUME NEW w \in seen
      PROVE  w \in Spans /\ Begins(versions, w.from) /\ w.to = WeekEnd(versions, w.from)
  <2>1. PICK range \in Ranges :
          ~StartsInAChangedWeek(range) /\ w \in ToSet(WeeksBetween(versions, range))
    BY <1>3
  <2> QED
    BY <1>2, <2>1
<1> HIDE DEF seen
<1>4. ASSUME NEW w \in seen, NEW x \in seen, w # x PROVE Days(w) \intersect Days(x) = {}
  <2>1. SUFFICES ASSUME NEW d \in Days(w) \intersect Days(x) PROVE w = x
    BY <1>4
  <2>2. /\ w \in Spans /\ Begins(versions, w.from) /\ w.to = WeekEnd(versions, w.from)
        /\ x \in Spans /\ Begins(versions, x.from) /\ x.to = WeekEnd(versions, x.from)
    BY <1>3
  <2> QED
    BY <2>2, WeeksAreApart
<1> QED
  BY <1>1, <1>4 DEF WeeksTile, seen

-----------------------------------------------------------------------------
(***************************************************************************)
(* Months.                                                                 *)
(***************************************************************************)
LEMMA LengthsArePositive == ASSUME NEW m \in Nat PROVE LengthOf(m) \in Nat /\ LengthOf(m) > 0
<1>1. PICK n \in Nat : n = Len(MonthLengths) /\ n > 0
  <2> MonthLengths \in Seq(Nat \ {0}) /\ MonthLengths # <<>>
    BY PeriodsAssumption
  <2> QED
    OBVIOUS
<1>2. m % n \in Int /\ 0 <= m % n /\ m % n < n
  BY <1>1
<1>3. PICK i \in 1 .. n : i = (m % n) + 1
  BY <1>1, <1>2
<1>4. MonthLengths[i] \in Nat \ {0}
  BY <1>1, PeriodsAssumption
<1> QED
  BY <1>1, <1>3, <1>4 DEF LengthOf

CountsMonths(f) ==
  f = [month \in Nat |-> IF month = 0 THEN 0 ELSE f[month - 1] + LengthOf(month - 1)]

LEMMA MonthsAreCounted == \E f : CountsMonths(f)
<1> DEFINE X == Nat
           leaves == {0}
           next == [m \in Nat |-> IF m = 0 THEN 0 ELSE m - 1]
           rank == [m \in Nat |-> m]
           step == [m \in Nat |-> [x \in X |-> x + (IF m = 0 THEN 0 ELSE LengthOf(m - 1))]]
<1>1. Nears(Nat, leaves, next, rank)
  <2>1. next \in [Nat -> Nat] /\ rank \in [Nat -> Nat]
    OBVIOUS
  <2>2. \A m \in Nat : m \notin leaves => rank[next[m]] < rank[m]
    OBVIOUS
  <2> HIDE DEF leaves, next, rank
  <2> QED
    BY <2>1, <2>2 DEF Nears
<1>2. step \in [Nat -> [X -> X]]
  <2>1. \A m \in Nat : (IF m = 0 THEN 0 ELSE LengthOf(m - 1)) \in Nat
    BY LengthsArePositive
  <2> QED
    BY <2>1
<1>3. PICK base \in X : base = 0
  OBVIOUS
<1>4. \E f \in [Nat -> X] : Recurs(f, Nat, base, leaves, next, step)
  <2> HIDE DEF X, leaves, next, rank, step
  <2> QED
    BY <1>1, <1>2, <1>3, RecursionExists
<1>5. PICK f \in [Nat -> X] : Recurs(f, Nat, base, leaves, next, step)
  BY <1>4
<1>6. ASSUME NEW m \in Nat PROVE f[m] = IF m = 0 THEN 0 ELSE f[m - 1] + LengthOf(m - 1)
  <2>1. f[m] = IF m \in leaves THEN 0 ELSE step[m][f[next[m]]]
    BY <1>3, <1>5 DEF Recurs
  <2>2. CASE m = 0
    BY <2>1, <2>2
  <2>3. CASE m # 0
    <3>1. m - 1 \in Nat /\ next[m] = m - 1
      BY <2>3
    <3>2. f[m - 1] \in Nat
      BY <3>1
    <3>3. step[m][f[m - 1]] = f[m - 1] + LengthOf(m - 1)
      BY <2>3, <3>2
    <3> HIDE DEF step, next
    <3> QED
      BY <2>1, <2>3, <3>1, <3>3
  <2> QED
    BY <2>2, <2>3
<1>7. f = [m \in Nat |-> f[m]]
  OBVIOUS
<1>8. CountsMonths(f)
  BY <1>6, <1>7 DEF CountsMonths
<1> QED
  BY <1>8

LEMMA FirstDates ==
  /\ FirstOf[0] = 0
  /\ \A m \in Nat : FirstOf[m + 1] = FirstOf[m] + LengthOf(m)
<1>1. FirstOf = CHOOSE f : CountsMonths(f)
  BY Zenon DEF FirstOf, CountsMonths
<1>2. CountsMonths(FirstOf)
  BY <1>1, MonthsAreCounted
<1>3. \A m \in Nat : FirstOf[m] = IF m = 0 THEN 0 ELSE FirstOf[m - 1] + LengthOf(m - 1)
  BY <1>2 DEF CountsMonths
<1>4. FirstOf[0] = 0
  BY <1>3
<1>5. ASSUME NEW m \in Nat PROVE FirstOf[m + 1] = FirstOf[m] + LengthOf(m)
  <2>1. m + 1 \in Nat /\ m + 1 # 0 /\ (m + 1) - 1 = m
    OBVIOUS
  <2>2. FirstOf[m + 1] = FirstOf[(m + 1) - 1] + LengthOf((m + 1) - 1)
    BY <1>3, <2>1
  <2> QED
    BY <2>1, <2>2
<1> QED
  BY <1>4, <1>5

LEMMA MonthsPass == \A m \in Nat : FirstOf[m] \in Nat /\ m <= FirstOf[m]
<1> SUFFICES ASSUME NEW M \in Nat PROVE FirstOf[M] \in Nat /\ M <= FirstOf[M]
  OBVIOUS
<1> DEFINE T == {m \in Nat : FirstOf[m] \in Nat /\ m <= FirstOf[m]}
<1>1. 0 \in T
  BY FirstDates
<1>2. \A m \in Nat : m < M /\ m \in T => m + 1 \in T
  BY FirstDates, LengthsArePositive
<1> HIDE DEF T
<1>3. M \in T
  BY <1>1, <1>2, Climb
<1> QED
  BY <1>3 DEF T

\* A month is over when a later one begins.
LEMMA MonthsFollow ==
  ASSUME NEW m \in Nat, NEW n \in Nat, m < n
  PROVE  FirstOf[m] + LengthOf(m) <= FirstOf[n]
<1> DEFINE T == {k \in Nat : FirstOf[m] + LengthOf(m) <= FirstOf[m + 1 + k]}
<1>1. LengthOf(m) \in Nat /\ \A k \in Nat : FirstOf[k] \in Nat
  BY LengthsArePositive, MonthsPass
<1>2. 0 \in T
  BY <1>1, FirstDates
<1>3. ASSUME NEW k \in Nat, k \in T PROVE k + 1 \in T
  <2>1. m + 1 + k \in Nat /\ m + 1 + (k + 1) = (m + 1 + k) + 1
    OBVIOUS
  <2>2. FirstOf[(m + 1 + k) + 1] = FirstOf[m + 1 + k] + LengthOf(m + 1 + k)
    BY <2>1, FirstDates
  <2>3. LengthOf(m + 1 + k) \in Nat /\ FirstOf[m + 1 + k] \in Nat /\ FirstOf[m] \in Nat
    BY <1>1, <2>1, LengthsArePositive
  <2> QED
    BY <1>1, <1>3, <2>1, <2>2, <2>3
<1> HIDE DEF T
<1>4. PICK k \in Nat : m + 1 + k = n
  <2> n - m - 1 \in Nat /\ m + 1 + (n - m - 1) = n
    OBVIOUS
  <2> QED
    OBVIOUS
<1>5. k \in T
  BY <1>2, <1>3, Climb
<1> QED
  BY <1>4, <1>5 DEF T

\* A date is in one month.
LEMMA MonthHolds ==
  ASSUME NEW d \in Nat
  PROVE  MonthOf(d) \in Nat /\ FirstOf[MonthOf(d)] <= d /\ d < FirstOf[MonthOf(d) + 1]
<1> DEFINE S == {m \in 0 .. d : FirstOf[m] <= d}
<1>1. S \in SUBSET Int /\ S # {} /\ IsFiniteSet(S)
  <2>1. 0 \in S
    BY FirstDates
  <2>2. S \in SUBSET (0 .. d)
    OBVIOUS
  <2>3. IsFiniteSet(S)
    <3>1. IsFiniteSet(0 .. d)
      BY FS_Interval
    <3> HIDE DEF S
    <3> QED
      BY <2>2, <3>1, FS_Subset
  <2> QED
    BY <2>1, <2>2, <2>3
<1>2. PICK m : m = MonthOf(d)
  OBVIOUS
<1>3. m \in S /\ \A y \in S : y <= m
  <2>1. m = Max(S)
    BY <1>2 DEF MonthOf
  <2> HIDE DEF S
  <2> QED
    BY <1>1, <2>1, LargestOf
<1>4. m \in Nat /\ FirstOf[m] <= d
  BY <1>3
<1>5. d < FirstOf[m + 1]
  <2>1. m + 1 \notin S
    BY <1>3, <1>4
  <2>2. m + 1 \in Nat /\ FirstOf[m + 1] \in Nat /\ m + 1 <= FirstOf[m + 1]
    BY <1>4, MonthsPass
  <2> QED
    BY <2>1, <2>2
<1> QED
  BY <1>2, <1>4, <1>5

\* A day of a month that a later one does not have is rounded to that month's last day.
LEMMA MonthsAreAdded ==
  ASSUME NEW d \in Nat, NEW n \in Nat
  PROVE  /\ AddMonths(d, n) \in Nat
         /\ FirstOf[MonthOf(d) + n] <= AddMonths(d, n)
         /\ AddMonths(d, n) < FirstOf[MonthOf(d) + n + 1]
         /\ n = 0 => AddMonths(d, n) = d
<1>1. PICK m \in Nat : m = MonthOf(d) /\ FirstOf[m] <= d /\ d < FirstOf[m + 1]
  BY MonthHolds
<1>2. PICK k \in Nat : k = m + n
  OBVIOUS
<1>3. PICK a \in Nat, b \in Nat, l \in Nat, h \in Nat :
        a = FirstOf[m] /\ b = FirstOf[k] /\ l = LengthOf(k) /\ l > 0 /\ h = LengthOf(m)
  BY MonthsPass, LengthsArePositive
<1>4. FirstOf[m + 1] = a + h /\ FirstOf[k + 1] = b + l
  BY <1>3, FirstDates
<1>5. PICK x \in Int, y \in Int : x = d - a /\ y = l - 1
  OBVIOUS
<1>6. PICK z : z = Min({x, y})
  OBVIOUS
<1>7. z \in {x, y} /\ z <= x /\ z <= y
  BY <1>6, EarlierOfTwo
<1>8. AddMonths(d, n) = b + z
  BY <1>1, <1>2, <1>3, <1>5, <1>6 DEF AddMonths
<1>9. 0 <= z /\ z < l /\ z \in Int
  BY <1>1, <1>3, <1>5, <1>7
<1>10. n = 0 => b + z = d
  <2>1. ASSUME n = 0 PROVE b + z = d
    <3>1. k = m /\ a = b /\ h = l
      BY <1>2, <1>3, <2>1
    <3>2. x <= y
      BY <1>1, <1>4, <1>5, <3>1
    <3> QED
      BY <1>5, <1>7, <3>1, <3>2
  <2> QED
    BY <2>1
<1> QED
  BY <1>1, <1>2, <1>3, <1>4, <1>8, <1>9, <1>10

-----------------------------------------------------------------------------
(***************************************************************************)
(* Settlement periods.                                                     *)
(***************************************************************************)
\* A system that is settled.
IsSettled(s) ==
  s.startsOn \in Nat /\ s.months \in Nat \ {0} /\ s.from \in Int /\ s.to \in Int

\* A settlement begins in the months that are a multiple of its length after the first.
LEMMA SettlementStarts ==
  ASSUME NEW s, IsSettled(s), NEW i \in Nat, NEW m \in Nat, m = MonthOf(s.startsOn) + i * s.months
  PROVE  /\ SettlementStart(s, i) \in Nat
         /\ FirstOf[m] <= SettlementStart(s, i) /\ SettlementStart(s, i) < FirstOf[m + 1]
<1>1. PICK d \in Nat, l \in Nat : d = s.startsOn /\ l = s.months
  BY DEF IsSettled
<1>2. PICK n : n = i * l
  OBVIOUS
<1>3. n \in Nat
  BY <1>2
<1>4. /\ AddMonths(d, n) \in Nat
      /\ FirstOf[MonthOf(d) + n] <= AddMonths(d, n)
      /\ AddMonths(d, n) < FirstOf[MonthOf(d) + n + 1]
  BY <1>3, MonthsAreAdded
<1> QED
  BY <1>1, <1>2, <1>4 DEF SettlementStart

LEMMA FirstSettlement ==
  ASSUME NEW s, IsSettled(s)
  PROVE  SettlementStart(s, 0) = s.startsOn
<1>1. PICK d \in Nat, l \in Nat : d = s.startsOn /\ l = s.months
  BY DEF IsSettled
<1>2. 0 * l = 0
  OBVIOUS
<1> QED
  BY <1>1, <1>2, MonthsAreAdded DEF SettlementStart

LEMMA MonthsApart ==
  ASSUME NEW i \in Nat, NEW j \in Nat, NEW l \in Nat \ {0}, i < j
  PROVE  i * l \in Nat /\ j * l \in Nat /\ i * l + l <= j * l /\ i <= i * l
<1>1. PICK k \in Nat : j = i + 1 + k
  <2> j - i - 1 \in Nat /\ j = i + 1 + (j - i - 1)
    OBVIOUS
  <2> QED
    OBVIOUS
<1>2. j * l = i * l + l + k * l
  BY <1>1
<1>3. k * l \in Nat /\ i * l \in Nat /\ j * l \in Nat
  OBVIOUS
<1>4. i <= i * l
  OBVIOUS
<1> QED
  BY <1>2, <1>3, <1>4

LEMMA SettlementsFollow ==
  ASSUME NEW s, IsSettled(s), NEW i \in Nat, NEW j \in Nat, i < j
  PROVE  SettlementStart(s, i) < SettlementStart(s, j)
<1>1. PICK d \in Nat, l \in Nat \ {0} : d = s.startsOn /\ l = s.months
  BY DEF IsSettled
<1>2. PICK a : a = MonthOf(d)
  OBVIOUS
<1>3. a \in Nat
  BY <1>2, MonthHolds
<1>4. PICK p, q : p = i * l /\ q = j * l
  OBVIOUS
<1>5. p \in Nat /\ q \in Nat /\ p + 1 <= q
  BY <1>4, MonthsApart
<1>6. PICK m \in Nat, n \in Nat : m = a + p /\ n = a + q
  BY <1>3, <1>5
<1>7. /\ SettlementStart(s, i) \in Nat /\ SettlementStart(s, j) \in Nat
      /\ SettlementStart(s, i) < FirstOf[m + 1] /\ FirstOf[n] <= SettlementStart(s, j)
  BY <1>1, <1>2, <1>4, <1>6, SettlementStarts
<1>8. FirstOf[m + 1] <= FirstOf[n]
  <2>1. m < n
    BY <1>5, <1>6, <1>3
  <2>2. FirstOf[m] + LengthOf(m) <= FirstOf[n]
    BY <2>1, MonthsFollow
  <2> QED
    BY <2>2, FirstDates
<1>9. FirstOf[m + 1] \in Nat /\ FirstOf[n] \in Nat
  BY MonthsPass
<1> QED
  BY <1>7, <1>8, <1>9

LEMMA SettlementsPass ==
  ASSUME NEW s, IsSettled(s), NEW i \in Nat
  PROVE  SettlementStart(s, i) \in Nat /\ i <= SettlementStart(s, i)
<1>1. PICK d \in Nat, l \in Nat \ {0} : d = s.startsOn /\ l = s.months
  BY DEF IsSettled
<1>2. PICK a : a = MonthOf(d)
  OBVIOUS
<1>3. a \in Nat
  BY <1>2, MonthHolds
<1>4. PICK p : p = i * l
  OBVIOUS
<1>5. p \in Nat /\ i <= p
  <2> i < i + 1 /\ i + 1 \in Nat
    OBVIOUS
  <2> QED
    BY <1>4, MonthsApart
<1>6. PICK m \in Nat : m = a + p
  BY <1>3, <1>5
<1>7. SettlementStart(s, i) \in Nat /\ FirstOf[m] <= SettlementStart(s, i)
  BY <1>1, <1>2, <1>4, <1>6, SettlementStarts
<1>8. FirstOf[m] \in Nat /\ m <= FirstOf[m]
  BY MonthsPass
<1> QED
  BY <1>3, <1>5, <1>6, <1>7, <1>8

\* A date lies in the i-th settlement.
Lies(s, date, i) == SettlementStart(s, i) <= date /\ date < SettlementStart(s, i + 1)

LEMMA LiesInOne ==
  ASSUME NEW s, IsSettled(s), NEW d \in Int, NEW i \in Nat, NEW j \in Nat,
         Lies(s, d, i), Lies(s, d, j)
  PROVE  i = j
<1>1. /\ SettlementStart(s, i) \in Nat /\ SettlementStart(s, i + 1) \in Nat
      /\ SettlementStart(s, j) \in Nat /\ SettlementStart(s, j + 1) \in Nat
  BY SettlementsPass
<1>2. ASSUME i < j PROVE FALSE
  <2>1. SettlementStart(s, i + 1) <= SettlementStart(s, j)
    <3>1. CASE i + 1 = j
      BY <1>1, <3>1
    <3>2. CASE i + 1 < j
      BY <1>1, <3>2, SettlementsFollow
    <3> QED
      BY <1>2, <3>1, <3>2
  <2> QED
    BY <1>1, <2>1 DEF Lies
<1>3. ASSUME j < i PROVE FALSE
  <2>1. SettlementStart(s, j + 1) <= SettlementStart(s, i)
    <3>1. CASE j + 1 = i
      BY <1>1, <3>1
    <3>2. CASE j + 1 < i
      BY <1>1, <3>2, SettlementsFollow
    <3> QED
      BY <1>3, <3>1, <3>2
  <2> QED
    BY <1>1, <2>1 DEF Lies
<1> QED
  BY <1>2, <1>3

LEMMA LiesInSome ==
  ASSUME NEW s, IsSettled(s), NEW d \in Nat, s.startsOn <= d
  PROVE  \E i \in Nat : Lies(s, d, i)
<1> DEFINE S == {i \in Nat : d < SettlementStart(s, i + 1)}
<1>1. d \in S
  <2>1. d + 1 \in Nat /\ SettlementStart(s, d + 1) \in Nat /\ d + 1 <= SettlementStart(s, d + 1)
    BY SettlementsPass
  <2> QED
    BY <2>1
<1>2. PICK i \in S : \A j \in S : i <= j
  <2> S \in SUBSET Nat /\ S # {}
    BY <1>1
  <2> HIDE DEF S
  <2> QED
    BY LeastOf
<1>3. SettlementStart(s, i) <= d
  <2>1. CASE i = 0
    BY <2>1, FirstSettlement
  <2>2. CASE i # 0
    <3>1. i - 1 \in Nat /\ (i - 1) + 1 = i /\ i - 1 \notin S
      BY <1>2, <2>2
    <3>2. SettlementStart(s, i) \in Nat
      BY SettlementsPass
    <3> QED
      BY <3>1, <3>2
  <2> QED
    BY <2>1, <2>2
<1> QED
  BY <1>3 DEF Lies

\* The guess from the months is the settlement of a date, or the next one.
LEMMA GuessIsNear ==
  ASSUME NEW s, IsSettled(s), NEW d \in Nat, s.startsOn <= d, NEW i \in Nat, Lies(s, d, i)
  PROVE  i \in Indexes(s, d) /\ Indexes(s, d) \subseteq Nat
<1>1. PICK b \in Nat, l \in Nat \ {0} : b = s.startsOn /\ l = s.months
  BY DEF IsSettled
<1>2. PICK a, m : a = MonthOf(b) /\ m = MonthOf(d)
  OBVIOUS
<1>3. /\ a \in Nat /\ m \in Nat
      /\ FirstOf[a] <= b /\ FirstOf[m] <= d /\ d < FirstOf[m + 1]
  BY <1>2, MonthHolds
<1>4. PICK p, q : p = i * l /\ q = (i + 1) * l
  OBVIOUS
<1>5. p \in Nat /\ q \in Nat /\ q = p + l
  <2>1. i < i + 1 /\ i + 1 \in Nat
    OBVIOUS
  <2> QED
    BY <1>4
<1>6. PICK x \in Nat, y \in Nat : x = a + p /\ y = a + q
  BY <1>3, <1>5
<1>7. /\ SettlementStart(s, i) \in Nat /\ FirstOf[x] <= SettlementStart(s, i)
      /\ SettlementStart(s, i + 1) \in Nat /\ SettlementStart(s, i + 1) < FirstOf[y + 1]
  BY <1>1, <1>2, <1>4, <1>6, SettlementStarts
<1>8. \A n \in Nat, o \in Nat : n < o => FirstOf[n + 1] <= FirstOf[o]
  BY MonthsFollow, FirstDates
<1>9. /\ FirstOf[x] \in Nat /\ FirstOf[y + 1] \in Nat
      /\ FirstOf[m] \in Nat /\ FirstOf[m + 1] \in Nat /\ FirstOf[a] \in Nat
  BY <1>3, MonthsPass
<1>10. x <= m
  <2>1. ASSUME m < x PROVE FALSE
    <3>1. FirstOf[m + 1] <= FirstOf[x]
      BY <1>3, <1>8, <2>1
    <3> QED
      BY <1>3, <1>7, <1>9, <3>1 DEF Lies
  <2> QED
    BY <1>3, <2>1
<1>11. m <= y
  <2>1. ASSUME y < m PROVE FALSE
    <3>1. FirstOf[y + 1] <= FirstOf[m]
      BY <1>3, <1>8, <2>1
    <3> QED
      BY <1>3, <1>7, <1>9, <3>1 DEF Lies
  <2> QED
    BY <1>3, <2>1
<1>12. PICK g : g = (m - a) \div l
  OBVIOUS
<1>13. g \in Int /\ g * l <= m - a /\ m - a < g * l + l
  <2>1. PICK z \in Int : z = m - a
    BY <1>3
  <2>2. z \div l \in Int /\ z = l * (z \div l) + (z % l) /\ 0 <= z % l /\ z % l < l
    OBVIOUS
  <2>3. PICK r \in Int : r = z % l
    BY <2>2
  <2>4. g \in Int /\ z = l * g + r /\ 0 <= r /\ r < l
    BY <1>12, <2>1, <2>2, <2>3
  <2>5. l * g = g * l
    BY <2>4
  <2> QED
    BY <2>1, <2>4, <2>5
<1>14. p <= m - a /\ m - a <= p + l
  BY <1>3, <1>5, <1>6, <1>10, <1>11
<1>15. g = i \/ g = i + 1
  <2>1. i * l <= m - a /\ m - a <= i * l + l
    BY <1>4, <1>14
  <2>2. ASSUME g < i PROVE FALSE
    <3>1. g * l + l <= i * l
      <4>1. PICK k \in Nat : i = g + 1 + k
        <5> i - g - 1 \in Nat /\ i = g + 1 + (i - g - 1)
          BY <1>13, <2>2
        <5> QED
          OBVIOUS
      <4>2. i * l = g * l + l + k * l
        BY <1>13, <4>1
      <4>3. k * l \in Nat /\ g * l \in Int /\ i * l \in Int
        BY <1>13
      <4> QED
        BY <4>2, <4>3
    <3>2. m - a \in Int /\ g * l \in Int /\ i * l \in Int
      BY <1>3, <1>13
    <3> QED
      BY <1>13, <2>1, <3>1, <3>2
  <2>3. ASSUME i + 1 < g PROVE FALSE
    <3>1. i * l + l + l <= g * l
      <4>1. PICK k \in Nat : g = i + 2 + k
        <5> g - i - 2 \in Nat /\ g = i + 2 + (g - i - 2)
          BY <1>13, <2>3
        <5> QED
          OBVIOUS
      <4>2. g * l = i * l + l + l + k * l
        BY <4>1
      <4>3. k * l \in Nat /\ g * l \in Int /\ i * l \in Int
        BY <1>13
      <4> QED
        BY <4>2, <4>3
    <3>2. m - a \in Int /\ g * l \in Int /\ i * l \in Int
      BY <1>3, <1>13
    <3> QED
      BY <1>13, <2>1, <3>1, <3>2
  <2> QED
    BY <1>13, <2>2, <2>3
<1>16. Indexes(s, d) = {g - 1, g, g + 1} \ {-1}
  BY <1>1, <1>2, <1>12 DEF Indexes
<1>17. 0 <= g
  BY <1>15
<1> QED
  BY <1>13, <1>15, <1>16, <1>17

Settlement(s, i) == [from |-> SettlementStart(s, i), to |-> SettlementStart(s, i + 1) - 1]

LEMMA SettlementIs ==
  ASSUME NEW s, IsSettled(s), NEW d \in Int, s.startsOn <= d
  PROVE  \E i \in Nat : Lies(s, d, i) /\ SettlementOf(s, d) = Settlement(s, i)
<1>1. d \in Nat
  BY DEF IsSettled
<1>2. PICK i \in Nat : Lies(s, d, i)
  BY <1>1, LiesInSome
<1>3. i \in Indexes(s, d) /\ Indexes(s, d) \subseteq Nat
  BY <1>1, <1>2, GuessIsNear
<1> DEFINE fits == {j \in Indexes(s, d) :
                      SettlementStart(s, j) <= d /\ d < SettlementStart(s, j + 1)}
<1>4. fits = {i}
  BY <1>2, <1>3, LiesInOne DEF Lies
<1>5. Min({i}) = i
  <2>1. {i} = {i, i}
    OBVIOUS
  <2> QED
    BY <2>1, EarlierOfTwo
<1>6. ~(d < s.startsOn)
  BY DEF IsSettled
<1>7. SettlementOf(s, d) = [from |-> SettlementStart(s, i), to |-> SettlementStart(s, i + 1) - 1]
  BY <1>4, <1>5, <1>6 DEF SettlementOf
<1> QED
  BY <1>2, <1>7 DEF Settlement

LEMMA SettlementIsNone ==
  ASSUME NEW s, IsSettled(s), NEW d \in Int, ~(s.startsOn <= d)
  PROVE  SettlementOf(s, d) = None
<1>1. d < s.startsOn
  BY DEF IsSettled
<1> QED
  BY <1>1 DEF SettlementOf

LEMMA SettlementSpans ==
  ASSUME NEW s, IsSettled(s), NEW i \in Nat
  PROVE  Settlement(s, i) \in Spans /\ Settlement(s, i) # None
<1>1. SettlementStart(s, i) \in Int /\ SettlementStart(s, i + 1) \in Int
  BY SettlementsPass
<1>2. Settlement(s, i) \in Spans
  BY <1>1 DEF Settlement, Spans
<1> QED
  BY <1>2, PeriodsAssumption DEF Spans

\* A settlement while the system is in effect.
Cut(s, i) ==
  [from |-> Max({Settlement(s, i).from, s.from}), to |-> Min({Settlement(s, i).to, s.to})]

LEMMA CutHolds ==
  ASSUME NEW s, IsSettled(s), NEW i \in Nat
  PROVE  /\ Cut(s, i) \in Spans
         /\ SettlementStart(s, i) <= Cut(s, i).from /\ Cut(s, i).to < SettlementStart(s, i + 1)
         /\ s.from <= Cut(s, i).from /\ Cut(s, i).to <= s.to
         /\ \A d \in Int : Lies(s, d, i) /\ s.from <= d /\ d <= s.to =>
              Cut(s, i).from <= d /\ d <= Cut(s, i).to
<1>1. PICK a \in Int, b \in Int, e \in Int, f \in Int :
        a = SettlementStart(s, i) /\ b = SettlementStart(s, i + 1) - 1 /\ e = s.from /\ f = s.to
  <2>1. SettlementStart(s, i) \in Int /\ SettlementStart(s, i + 1) \in Int
    BY SettlementsPass
  <2> QED
    BY <2>1 DEF IsSettled
<1>2. PICK x, y : x = Max({a, e}) /\ y = Min({b, f})
  OBVIOUS
<1>3. x \in {a, e} /\ x >= a /\ x >= e /\ y \in {b, f} /\ y <= b /\ y <= f
  BY <1>2, LaterOfTwo, EarlierOfTwo
<1>4. Cut(s, i) = [from |-> x, to |-> y]
  BY <1>1, <1>2 DEF Cut, Settlement
<1>5. SettlementStart(s, i + 1) = b + 1
  BY <1>1, SettlementsPass
<1> QED
  BY <1>1, <1>3, <1>4, <1>5 DEF Spans, Lies

\* The date at which the periods after a date are looked for.
NextDate(s, c) ==
  IF SettlementOf(s, c) = None THEN Max({s.startsOn, c + 1}) ELSE SettlementOf(s, c).to + 1

PeriodAt(s, c) == IF SettlementOf(s, c) = None THEN <<>> ELSE Clip(SettlementOf(s, c), s)

LEMMA ClipIsCut ==
  ASSUME NEW s, NEW i
  PROVE  Clip(Settlement(s, i), s) = IF Cut(s, i).from > Cut(s, i).to THEN <<>> ELSE <<Cut(s, i)>>
BY DEF Clip, Cut

LEMMA DatesPass ==
  ASSUME NEW s, IsSettled(s), NEW c \in Int
  PROVE  NextDate(s, c) \in Int /\ c < NextDate(s, c) /\ PeriodAt(s, c) \in Seq(Spans)
<1>1. CASE s.startsOn <= c
  <2>1. PICK i \in Nat : Lies(s, c, i) /\ SettlementOf(s, c) = Settlement(s, i)
    BY <1>1, SettlementIs
  <2>2. SettlementOf(s, c) # None
    BY <2>1, SettlementSpans
  <2>3. SettlementStart(s, i + 1) \in Int
    BY SettlementsPass
  <2>4. NextDate(s, c) = SettlementStart(s, i + 1)
    BY <2>1, <2>2, <2>3 DEF NextDate, Settlement
  <2>5. PeriodAt(s, c) = IF Cut(s, i).from > Cut(s, i).to THEN <<>> ELSE <<Cut(s, i)>>
    BY <2>1, <2>2, ClipIsCut DEF PeriodAt
  <2>6. Cut(s, i) \in Spans
    BY CutHolds
  <2>7. <<>> \in Seq(Spans) /\ <<Cut(s, i)>> \in Seq(Spans)
    BY <2>6
  <2> QED
    BY <2>1, <2>3, <2>4, <2>5, <2>7 DEF Lies
<1>2. CASE ~(s.startsOn <= c)
  <2>1. SettlementOf(s, c) = None
    BY <1>2, SettlementIsNone
  <2>2. PICK m \in Int, n \in Int : m = s.startsOn /\ n = c + 1
    BY DEF IsSettled
  <2>3. NextDate(s, c) = Max({m, n})
    BY <2>1, <2>2 DEF NextDate
  <2>4. Max({m, n}) \in {m, n} /\ Max({m, n}) >= n
    BY LaterOfTwo
  <2>5. PeriodAt(s, c) = <<>> /\ <<>> \in Seq(Spans)
    BY <2>1 DEF PeriodAt
  <2> QED
    BY <2>2, <2>3, <2>4, <2>5
<1> QED
  BY <1>1, <1>2

\* The function that SettlementsBetween defines.
CutsSettlements(s, to, f) ==
  f = [cursor \in Int |->
         IF cursor > to THEN <<>>
         ELSE LET period == SettlementOf(s, cursor) IN
              IF period = None THEN f[Max({s.startsOn, cursor + 1})]
              ELSE Clip(period, s) \o f[period.to + 1]]

LEMMA SettlementsAreCut ==
  ASSUME NEW s, IsSettled(s), NEW to \in Int
  PROVE  \E f : CutsSettlements(s, to, f)
<1> DEFINE X == Seq(Spans)
           leaves == {c \in Int : c > to}
           next == [c \in Int |-> NextDate(s, c)]
           rank == [c \in Int |-> IF c > to THEN 0 ELSE to - c + 1]
           step == [c \in Int |-> [rest \in X |-> PeriodAt(s, c) \o rest]]
<1>1. Nears(Int, leaves, next, rank)
  <2>1. next \in [Int -> Int] /\ rank \in [Int -> Nat]
    BY DatesPass
  <2>2. ASSUME NEW c \in Int, c \notin leaves PROVE rank[next[c]] < rank[c]
    <3>1. next[c] \in Int /\ next[c] > c /\ c <= to
      BY <2>2, DatesPass
    <3> HIDE DEF next
    <3> QED
      BY <3>1
  <2> QED
    BY <2>1, <2>2 DEF Nears
<1>2. step \in [Int -> [X -> X]]
  <2>1. ASSUME NEW c \in Int, NEW rest \in X PROVE PeriodAt(s, c) \o rest \in X
    <3>1. PeriodAt(s, c) \in Seq(Spans)
      BY DatesPass
    <3> QED
      BY <3>1
  <2> QED
    BY <2>1
<1>3. PICK base : base = <<>> /\ base \in X
  <2> <<>> \in Seq(Spans)
    OBVIOUS
  <2> QED
    OBVIOUS
<1>4. \E f \in [Int -> X] : Recurs(f, Int, base, leaves, next, step)
  <2> HIDE DEF X, leaves, next, rank, step
  <2> QED
    BY <1>1, <1>2, <1>3, RecursionExists
<1>5. PICK f \in [Int -> X] : Recurs(f, Int, base, leaves, next, step)
  BY <1>4
<1>6. ASSUME NEW c \in Int
      PROVE  f[c] = IF c > to THEN <<>>
                    ELSE LET period == SettlementOf(s, c) IN
                         IF period = None THEN f[Max({s.startsOn, c + 1})]
                         ELSE Clip(period, s) \o f[period.to + 1]
  <2>1. f[c] = IF c \in leaves THEN <<>> ELSE step[c][f[next[c]]]
    BY <1>3, <1>5 DEF Recurs
  <2>2. CASE c > to
    BY <2>1, <2>2
  <2>3. CASE ~(c > to)
    <3>1. f[c] = step[c][f[next[c]]]
      BY <2>1, <2>3
    <3>2. next[c] = NextDate(s, c) /\ NextDate(s, c) \in Int
      BY DatesPass
    <3>3. f[NextDate(s, c)] \in X
      BY <3>2
    <3>4. step[c][f[next[c]]] = PeriodAt(s, c) \o f[NextDate(s, c)]
      BY <3>2, <3>3
    <3>5. f[c] = PeriodAt(s, c) \o f[NextDate(s, c)]
      BY <3>1, <3>4
    <3>6. CASE SettlementOf(s, c) = None
      <4>1. f[c] = <<>> \o f[NextDate(s, c)]
        BY <3>5, <3>6 DEF PeriodAt
      <4>2. f[c] = f[NextDate(s, c)]
        BY <3>3, <4>1
      <4> HIDE DEF step, next, X
      <4> QED
        BY <2>3, <3>6, <4>2 DEF NextDate
    <3>7. CASE SettlementOf(s, c) # None
      <4> HIDE DEF step, next, X
      <4> QED
        BY <2>3, <3>5, <3>7 DEF PeriodAt, NextDate
    <3> QED
      BY <3>6, <3>7
  <2> QED
    BY <2>2, <2>3
<1>7. CutsSettlements(s, to, f)
  <2> f = [c \in Int |-> f[c]]
    OBVIOUS
  <2> QED
    BY <1>6 DEF CutsSettlements
<1> QED
  BY <1>7

\* What the settlements from a date on are.
SettlesFrom(s, to, c, periods) ==
  /\ periods \in Seq(Spans)
  /\ \A k \in 1 .. Len(periods) :
       \E i \in Nat : /\ SettlementStart(s, i) <= to /\ periods[k] = Cut(s, i)
                      /\ Cut(s, i).from <= Cut(s, i).to
  /\ \A d \in Int : c <= d /\ d <= to /\ s.startsOn <= d /\ s.from <= d /\ d <= s.to =>
       \E k \in 1 .. Len(periods) : periods[k].from <= d /\ d <= periods[k].to

LEMMA OneMoreSettlement ==
  ASSUME NEW s, IsSettled(s), NEW to \in Int, NEW c \in Int, c <= to, NEW i \in Nat, Lies(s, c, i),
         NEW rest, SettlesFrom(s, to, SettlementStart(s, i + 1), rest)
  PROVE  SettlesFrom(s, to, c, Clip(Settlement(s, i), s) \o rest)
<1>1. /\ SettlementStart(s, i) \in Int /\ SettlementStart(s, i + 1) \in Int /\ s.startsOn \in Int
      /\ s.from \in Int /\ s.to \in Int
  BY SettlementsPass DEF IsSettled
<1>2. SettlementStart(s, i) <= to
  BY <1>1 DEF Lies
<1>3. PICK part : part = Clip(Settlement(s, i), s)
  OBVIOUS
<1>4. PICK w \in Spans : w = Cut(s, i)
  BY CutHolds
<1>5. part = IF w.from > w.to THEN <<>> ELSE <<w>>
  BY <1>3, <1>4, ClipIsCut
<1>6. w.from \in Int /\ w.to \in Int
  BY DEF Spans
<1>7. rest \in Seq(Spans)
  BY DEF SettlesFrom
<1>8. PICK periods : periods = part \o rest
  OBVIOUS
<1>9. ASSUME NEW d \in Int, c <= d, d <= to, s.startsOn <= d, s.from <= d, d <= s.to
      PROVE  \/ w.from <= d /\ d <= w.to
             \/ \E k \in 1 .. Len(rest) : rest[k].from <= d /\ d <= rest[k].to
  <2>1. CASE d < SettlementStart(s, i + 1)
    <3>1. Lies(s, d, i)
      BY <1>1, <1>9, <2>1 DEF Lies
    <3> QED
      BY <1>4, <1>9, <3>1, CutHolds
  <2>2. CASE ~(d < SettlementStart(s, i + 1))
    <3>1. SettlementStart(s, i + 1) <= d
      BY <1>1, <2>2
    <3>2. \E k \in 1 .. Len(rest) : rest[k].from <= d /\ d <= rest[k].to
      BY <1>9, <3>1 DEF SettlesFrom
    <3> QED
      BY <3>2
  <2> QED
    BY <2>1, <2>2
<1>10. CASE w.from > w.to
  <2>1. periods = rest
    BY <1>5, <1>7, <1>8, <1>10
  <2>2. \A d \in Int : ~(w.from <= d /\ d <= w.to)
    BY <1>6, <1>10
  <2>3. \A d \in Int : c <= d /\ d <= to /\ s.startsOn <= d /\ s.from <= d /\ d <= s.to =>
          \E k \in 1 .. Len(rest) : rest[k].from <= d /\ d <= rest[k].to
    BY <1>9, <2>2
  <2>4. SettlesFrom(s, to, c, rest)
    BY <2>3 DEF SettlesFrom
  <2> QED
    BY <1>3, <1>8, <2>1, <2>4
<1>11. CASE ~(w.from > w.to)
  <2>1. part = <<w>> /\ w.from <= w.to
    BY <1>5, <1>6, <1>11
  <2>2. /\ periods \in Seq(Spans) /\ Len(periods) = Len(rest) + 1 /\ periods[1] = w
        /\ \A k \in 1 .. Len(rest) : k + 1 \in 1 .. Len(periods) /\ periods[k + 1] = rest[k]
    BY <1>7, <1>8, <2>1
  <2>3. 1 \in 1 .. Len(periods)
    BY <1>7, <2>2
  <2>4. ASSUME NEW k \in 1 .. Len(periods)
        PROVE  \E j \in Nat : /\ SettlementStart(s, j) <= to /\ periods[k] = Cut(s, j)
                              /\ Cut(s, j).from <= Cut(s, j).to
    <3>1. CASE k = 1
      BY <1>2, <1>4, <2>1, <2>2, <3>1
    <3>2. CASE k # 1
      <4>1. k - 1 \in 1 .. Len(rest) /\ (k - 1) + 1 = k
        BY <1>7, <2>2, <3>2
      <4>2. periods[k] = rest[k - 1]
        BY <2>2, <4>1
      <4> QED
        BY <4>1, <4>2 DEF SettlesFrom
    <3> QED
      BY <3>1, <3>2
  <2>5. ASSUME NEW d \in Int, c <= d, d <= to, s.startsOn <= d, s.from <= d, d <= s.to
        PROVE  \E k \in 1 .. Len(periods) : periods[k].from <= d /\ d <= periods[k].to
    <3>1. CASE w.from <= d /\ d <= w.to
      BY <2>2, <2>3, <3>1
    <3>2. CASE \E k \in 1 .. Len(rest) : rest[k].from <= d /\ d <= rest[k].to
      <4>1. PICK k \in 1 .. Len(rest) : rest[k].from <= d /\ d <= rest[k].to
        BY <3>2
      <4>2. k + 1 \in 1 .. Len(periods) /\ periods[k + 1] = rest[k]
        BY <2>2
      <4> QED
        BY <4>1, <4>2
    <3> QED
      BY <1>9, <2>5, <3>1, <3>2
  <2>6. SettlesFrom(s, to, c, periods)
    BY <2>2, <2>4, <2>5 DEF SettlesFrom
  <2> QED
    BY <1>3, <1>8, <2>6
<1> QED
  BY <1>10, <1>11

LEMMA SettlementsAreMade ==
  ASSUME NEW s, IsSettled(s), NEW to \in Int, NEW f, CutsSettlements(s, to, f), NEW c \in Int
  PROVE  SettlesFrom(s, to, c, f[c])
<1> DEFINE T == {n \in Nat : \A d \in Int : to - d < n => SettlesFrom(s, to, d, f[d])}
<1>1. ASSUME NEW d \in Int
      PROVE  f[d] = IF d > to THEN <<>>
                    ELSE LET period == SettlementOf(s, d) IN
                         IF period = None THEN f[Max({s.startsOn, d + 1})]
                         ELSE Clip(period, s) \o f[period.to + 1]
  BY DEF CutsSettlements
<1>2. ASSUME NEW d \in Int, d > to PROVE SettlesFrom(s, to, d, f[d])
  <2>1. f[d] = <<>>
    BY <1>1, <1>2
  <2>2. PICK none : none = f[d] /\ none \in Seq(Spans) /\ Len(none) = 0
    <3> <<>> \in Seq(Spans) /\ Len(<<>>) = 0
      OBVIOUS
    <3> QED
      BY <2>1
  <2>3. 1 .. Len(none) = {}
    BY <2>2
  <2>4. \A e \in Int : ~(d <= e /\ e <= to)
    BY <1>2
  <2>5. SettlesFrom(s, to, d, none)
    BY <2>2, <2>3, <2>4 DEF SettlesFrom
  <2> QED
    BY <2>2, <2>5
<1>3. 0 \in T
  BY <1>2
<1>4. ASSUME NEW n \in Nat, n \in T PROVE n + 1 \in T
  <2>1. ASSUME NEW d \in Int, to - d < n + 1, ~(d > to) PROVE SettlesFrom(s, to, d, f[d])
    <3>1. PICK e : e = NextDate(s, d)
      OBVIOUS
    <3>2. e \in Int /\ d < e
      BY <3>1, DatesPass
    <3>3. SettlesFrom(s, to, e, f[e])
      <4>1. to - e < n
        BY <2>1, <3>2
      <4> QED
        BY <1>4, <3>2, <4>1
    <3>4. CASE s.startsOn <= d
      <4>1. PICK i \in Nat : Lies(s, d, i) /\ SettlementOf(s, d) = Settlement(s, i)
        BY <3>4, SettlementIs
      <4>2. SettlementOf(s, d) # None
        BY <4>1, SettlementSpans
      <4>3. f[d] = Clip(Settlement(s, i), s) \o f[e]
        BY <1>1, <2>1, <3>1, <4>1, <4>2 DEF NextDate
      <4>4. SettlementStart(s, i + 1) \in Int
        BY SettlementsPass
      <4>5. e = SettlementStart(s, i + 1)
        BY <3>1, <4>1, <4>2, <4>4 DEF NextDate, Settlement
      <4>6. PICK rest : rest = f[e]
        OBVIOUS
      <4>7. d <= to /\ SettlesFrom(s, to, SettlementStart(s, i + 1), rest)
        BY <2>1, <3>3, <4>5, <4>6
      <4>8. SettlesFrom(s, to, d, Clip(Settlement(s, i), s) \o rest)
        BY <4>1, <4>7, OneMoreSettlement
      <4> QED
        BY <4>3, <4>6, <4>8
    <3>5. CASE ~(s.startsOn <= d)
      <4>1. SettlementOf(s, d) = None
        BY <3>5, SettlementIsNone
      <4>2. f[d] = f[e]
        BY <1>1, <2>1, <3>1, <4>1 DEF NextDate
      <4>3. PICK m \in Int, l \in Int : m = s.startsOn /\ l = d + 1
        BY DEF IsSettled
      <4>4. e = m
        <5>1. e = Max({m, l})
          BY <3>1, <4>1, <4>3 DEF NextDate
        <5>2. Max({m, l}) \in {m, l} /\ Max({m, l}) >= m
          BY LaterOfTwo
        <5> QED
          BY <3>5, <4>3, <5>1, <5>2
      <4>5. \A x \in Int : d <= x /\ x <= to /\ s.startsOn <= x => e <= x
        BY <4>3, <4>4
      <4>6. SettlesFrom(s, to, d, f[e])
        BY <3>3, <4>5 DEF SettlesFrom
      <4> QED
        BY <4>2, <4>6
    <3> QED
      BY <3>4, <3>5
  <2> QED
    BY <1>2, <2>1
<1> HIDE DEF T
<1>5. PICK N \in Nat : to - c < N
  <2>1. CASE to - c < 0
    BY <2>1
  <2>2. CASE to - c >= 0
    <3> to - c + 1 \in Nat /\ to - c < to - c + 1
      BY <2>2
    <3> QED
      OBVIOUS
  <2> QED
    BY <2>1, <2>2
<1>6. N \in T
  BY <1>3, <1>4, <1>5, Climb
<1> QED
  BY <1>5, <1>6 DEF T

LEMMA SettlementsOfRange ==
  ASSUME NEW s, IsSettled(s), NEW range \in [from : Int, to : Int]
  PROVE  SettlesFrom(s, range.to, range.from, SettlementsBetween(s, range))
<1>1. PICK from \in Int, to \in Int : from = range.from /\ to = range.to
  OBVIOUS
<1>2. PICK f : f = CHOOSE g : CutsSettlements(s, to, g)
  OBVIOUS
<1>3. CutsSettlements(s, to, f)
  BY <1>2, SettlementsAreCut
<1>4. SettlementsBetween(s, range) = f[from]
  BY <1>1, <1>2, Zenon DEF SettlementsBetween, CutsSettlements
<1>5. SettlesFrom(s, to, from, f[from])
  BY <1>3, SettlementsAreMade
<1> QED
  BY <1>1, <1>4, <1>5

-----------------------------------------------------------------------------
(***************************************************************************)
(* What is answered for a range.                                           *)
(***************************************************************************)
LEMMA FewElements ==
  ASSUME NEW spans \in Seq(Spans)
  PROVE  IsFiniteSet(ToSet(spans)) /\ ToSet(spans) \subseteq Spans
<1>1. PICK n \in Nat : n = Len(spans) /\ DOMAIN spans = 1 .. n
  OBVIOUS
<1>2. ToSet(spans) = {spans[i] : i \in 1 .. n}
  BY <1>1 DEF ToSet
<1>3. spans \in Surjection(1 .. n, ToSet(spans))
  BY <1>1, <1>2 DEF Surjection
<1>4. IsFiniteSet(1 .. n)
  BY FS_Interval
<1>5. IsFiniteSet(ToSet(spans))
  BY <1>3, <1>4, FS_Surjection
<1> QED
  BY <1>1, <1>2, <1>5

LEMMA CoveringHolds ==
  ASSUME NEW periods \in SUBSET Spans, IsFiniteSet(periods), NEW range, NEW p \in periods
  PROVE  Days(p) \subseteq Days(Covering(periods, range))
<1> DEFINE starts == {q.from : q \in periods}
           ends == {q.to : q \in periods}
<1>1. starts \in SUBSET Int /\ ends \in SUBSET Int /\ p.from \in starts /\ p.to \in ends
  BY DEF Spans
<1>2. IsFiniteSet(starts) /\ IsFiniteSet(ends)
  <2>1. PICK f, g : f = [q \in periods |-> q.from] /\ g = [q \in periods |-> q.to]
    OBVIOUS
  <2>2. f \in Surjection(periods, starts) /\ g \in Surjection(periods, ends)
    BY <2>1 DEF Surjection
  <2> HIDE DEF starts, ends
  <2> QED
    BY <2>2, FS_Surjection
<1>3. Covering(periods, range) = [from |-> Min(starts), to |-> Max(ends)]
  BY DEF Covering
<1> HIDE DEF starts, ends
<1>4. PICK a \in Int, b \in Int : a = Min(starts) /\ b = Max(ends) /\ a <= p.from /\ p.to <= b
  BY <1>1, <1>2, SmallestOf, LargestOf
<1>5. p.from \in Int /\ p.to \in Int
  BY <1>1
<1> QED
  BY <1>3, <1>4, <1>5 DEF Days

WeekEntry(w) ==
  [kind |-> "week", from |-> w.from, to |-> w.to, system |-> None, partial |-> FALSE,
   days |-> Days(w)]

SettlementEntry(s, p) ==
  [kind |-> "settlement", from |-> p.from, to |-> p.to, system |-> s,
   partial |-> Partial(s, p), days |-> Days(p)]

SettingsInv ==
  /\ versions \in SUBSET Versions /\ IsFiniteSet(versions)
  /\ systems \in SUBSET Systems /\ IsFiniteSet(systems)

\* No period that is answered is cut by the dates that are read.
LEMMA SummariesAreWhole ==
  ASSUME SettingsInv, NEW range \in [from : Int, to : Int],
         range.from <= range.to
  PROVE  Summaries(versions, systems, range) =
           {WeekEntry(w) : w \in ToSet(WeeksBetween(versions, range))}
           \union
           {SettlementEntry(sp[1], sp[2]) :
              sp \in UNION {{<<s, p>> : p \in ToSet(SettlementsBetween(s, range))}
                            : s \in Settled(systems)}}
<1> DEFINE weeks == ToSet(WeeksBetween(versions, range))
           settlements == UNION {{<<s, p>> : p \in ToSet(SettlementsBetween(s, range))}
                                 : s \in Settled(systems)}
           periods == weeks \union {sp[2] : sp \in settlements}
           covered == Covering(periods, range)
<1>1. IsFiniteSet(weeks) /\ weeks \subseteq Spans
  <2>1. WeeksBetween(versions, range) \in Seq(Spans)
    BY WeeksOfRange DEF SettingsInv, WeeksFrom
  <2> QED
    BY <2>1, FewElements
<1>2. ASSUME NEW s \in Settled(systems) PROVE IsSettled(s)
  BY DEF SettingsInv, Settled, Systems, IsSettled
<1>3. ASSUME NEW s \in Settled(systems)
      PROVE  /\ IsFiniteSet(ToSet(SettlementsBetween(s, range)))
             /\ ToSet(SettlementsBetween(s, range)) \subseteq Spans
  <2>1. SettlementsBetween(s, range) \in Seq(Spans)
    BY <1>2, SettlementsOfRange DEF SettlesFrom
  <2> QED
    BY <2>1, FewElements
<1> DEFINE families == {ToSet(SettlementsBetween(s, range)) : s \in Settled(systems)}
<1>4. IsFiniteSet(UNION families)
  <2>1. IsFiniteSet(Settled(systems))
    BY FS_Subset DEF SettingsInv, Settled
  <2>2. PICK f : f = [s \in Settled(systems) |-> ToSet(SettlementsBetween(s, range))]
    OBVIOUS
  <2>3. f \in Surjection(Settled(systems), families)
    BY <2>2 DEF Surjection
  <2>4. \A x \in families : IsFiniteSet(x)
    BY <1>3
  <2> HIDE DEF families
  <2>5. IsFiniteSet(families)
    BY <2>1, <2>3, FS_Surjection
  <2> QED
    BY <2>4, <2>5, FS_UNION
<1>5. {sp[2] : sp \in settlements} = UNION families
  <2>1. ASSUME NEW sp \in settlements PROVE sp[2] \in UNION families
    <3>1. PICK s \in Settled(systems) :
            sp \in {<<s, p>> : p \in ToSet(SettlementsBetween(s, range))}
      OBVIOUS
    <3>2. PICK p \in ToSet(SettlementsBetween(s, range)) : sp = <<s, p>>
      BY <3>1
    <3> QED
      BY <3>2
  <2>2. ASSUME NEW p \in UNION families PROVE p \in {sp[2] : sp \in settlements}
    <3>1. PICK s \in Settled(systems) : p \in ToSet(SettlementsBetween(s, range))
      OBVIOUS
    <3>2. PICK sp : sp = <<s, p>>
      OBVIOUS
    <3>3. sp \in settlements /\ sp[2] = p
      BY <3>1, <3>2
    <3> HIDE DEF settlements, families
    <3> QED
      BY <3>3
  <2> HIDE DEF settlements, families
  <2> QED
    BY <2>1, <2>2
<1>6. periods \in SUBSET Spans /\ IsFiniteSet(periods)
  <2>1. UNION families \subseteq Spans
    BY <1>3
  <2> HIDE DEF families, settlements, weeks
  <2> QED
    BY <1>1, <1>4, <1>5, <2>1, FS_Union
<1>7. ASSUME NEW p \in periods PROVE Days(p) \intersect Days(covered) = Days(p)
  <2> HIDE DEF periods
  <2> QED
    BY <1>6, CoveringHolds
<1>8. Summaries(versions, systems, range) =
        {[kind |-> "week", from |-> w.from, to |-> w.to, system |-> None, partial |-> FALSE,
          days |-> Days(w) \intersect Days(covered)] : w \in weeks}
        \union
        {[kind |-> "settlement", from |-> sp[2].from, to |-> sp[2].to, system |-> sp[1],
          partial |-> Partial(sp[1], sp[2]), days |-> Days(sp[2]) \intersect Days(covered)]
         : sp \in settlements}
  BY Zenon DEF Summaries
<1>9. \A w \in weeks : Days(w) \intersect Days(covered) = Days(w)
  BY <1>7
<1>10. \A sp \in settlements : Days(sp[2]) \intersect Days(covered) = Days(sp[2])
  BY <1>7
<1> HIDE DEF weeks, settlements, covered
<1>11. Summaries(versions, systems, range) =
         {WeekEntry(w) : w \in weeks} \union {SettlementEntry(sp[1], sp[2]) : sp \in settlements}
  BY <1>8, <1>9, <1>10 DEF WeekEntry, SettlementEntry
<1> QED
  BY <1>11 DEF weeks, settlements

\* A date is answered in the one period it lies in, if the system is in effect.
LEMMA AnsweredOnce ==
  ASSUME NEW s, IsSettled(s), NEW from \in Int, NEW to \in Int, NEW periods,
         SettlesFrom(s, to, from, periods),
         NEW d \in Int, from <= d, d <= to, s.from <= d, d <= s.to
  PROVE  Cardinality({q \in {SettlementEntry(s, p) : p \in ToSet(periods)} : d \in Days(q)}) =
           IF d >= s.startsOn THEN 1 ELSE 0
<1> DEFINE those == {q \in {SettlementEntry(s, p) : p \in ToSet(periods)} : d \in Days(q)}
<1>1. periods \in Seq(Spans) /\ s.startsOn \in Int
  BY DEF SettlesFrom, IsSettled
<1>2. \A p : Days(SettlementEntry(s, p)) = Days(p)
  BY DEF SettlementEntry, Days
<1>3. ASSUME NEW p \in ToSet(periods), d \in Days(p)
      PROVE  \E i \in Nat : Lies(s, d, i) /\ p = Cut(s, i)
  <2>1. PICK k \in 1 .. Len(periods) : p = periods[k]
    BY <1>1 DEF ToSet
  <2>2. PICK i \in Nat : p = Cut(s, i)
    BY <2>1 DEF SettlesFrom
  <2>3. SettlementStart(s, i) <= p.from /\ p.to < SettlementStart(s, i + 1) /\ p \in Spans
    BY <2>2, CutHolds
  <2>4. p.from \in Int /\ p.to \in Int
    BY <2>3 DEF Spans
  <2>5. SettlementStart(s, i) \in Int /\ SettlementStart(s, i + 1) \in Int
    BY SettlementsPass
  <2>6. p.from <= d /\ d <= p.to
    BY <1>3, <2>4 DEF Days
  <2>7. Lies(s, d, i)
    BY <2>3, <2>4, <2>5, <2>6 DEF Lies
  <2> QED
    BY <2>2, <2>7
<1>4. CASE d >= s.startsOn
  <2>1. PICK k \in 1 .. Len(periods) : periods[k].from <= d /\ d <= periods[k].to
    BY <1>1, <1>4 DEF SettlesFrom
  <2>2. PICK p : p = periods[k]
    OBVIOUS
  <2>3. p \in ToSet(periods) /\ p \in Spans
    BY <1>1, <2>2 DEF ToSet
  <2>4. d \in Days(p)
    BY <2>1, <2>2, <2>3 DEF Days, Spans
  <2>5. PICK i \in Nat : Lies(s, d, i) /\ p = Cut(s, i)
    BY <1>3, <2>3, <2>4
  <2>6. ASSUME NEW q \in ToSet(periods), d \in Days(q) PROVE q = p
    <3>1. PICK j \in Nat : Lies(s, d, j) /\ q = Cut(s, j)
      BY <1>3, <2>6
    <3>2. i = j
      BY <2>5, <3>1, LiesInOne
    <3> QED
      BY <2>5, <3>1, <3>2
  <2>7. those = {SettlementEntry(s, p)}
    BY <1>2, <2>3, <2>4, <2>6
  <2> HIDE DEF those
  <2>8. Cardinality(those) = 1
    BY <2>7, FS_Singleton
  <2> QED
    BY <1>4, <2>8 DEF those
<1>5. CASE ~(d >= s.startsOn)
  <2>1. ASSUME NEW i \in Nat, Lies(s, d, i) PROVE FALSE
    <3>1. SettlementStart(s, i) \in Int /\ SettlementStart(s, 0) = s.startsOn
      BY FirstSettlement, SettlementsPass
    <3>2. CASE i = 0
      BY <1>1, <1>5, <2>1, <3>1, <3>2 DEF Lies
    <3>3. CASE i # 0
      <4>1. SettlementStart(s, 0) < SettlementStart(s, i)
        BY <3>3, SettlementsFollow
      <4> QED
        BY <1>1, <1>5, <2>1, <3>1, <4>1 DEF Lies
    <3> QED
      BY <3>2, <3>3
  <2>2. \A p \in ToSet(periods) : d \notin Days(p)
    BY <1>3, <2>1
  <2>3. those = {}
    BY <1>2, <2>2
  <2> HIDE DEF those
  <2>4. Cardinality(those) = 0
    BY <2>3, FS_EmptySet
  <2> QED
    BY <1>5, <2>4 DEF those
<1> QED
  BY <1>4, <1>5

\* A period that is answered lies within its system and between two starts, and is cut
\* unless it begins and ends where settlements do.
LEMMA AnsweredWithin ==
  ASSUME NEW s, IsSettled(s), NEW from \in Int, NEW to \in Int, to < Forever, NEW periods,
         SettlesFrom(s, to, from, periods), NEW p \in ToSet(periods)
  PROVE  LET Starts == {SettlementStart(s, i) : i \in 0 .. Forever} IN
         /\ Days(p) \subseteq Days(s) /\ Days(p) \intersect Starts \subseteq {p.from}
         /\ ~Partial(s, p) => p.from \in Starts /\ p.to + 1 \in Starts
<1> DEFINE Starts == {SettlementStart(s, i) : i \in 0 .. Forever}
<1>1. /\ periods \in Seq(Spans) /\ Forever \in Int
      /\ s.startsOn \in Int /\ s.from \in Int /\ s.to \in Int
  BY PeriodsAssumption DEF SettlesFrom, IsSettled, Forever
<1>2. PICK k \in 1 .. Len(periods) : p = periods[k]
  BY <1>1 DEF ToSet
<1>3. PICK i \in Nat : SettlementStart(s, i) <= to /\ p = Cut(s, i) /\ p.from <= p.to
  BY <1>2 DEF SettlesFrom
<1>4. /\ p \in Spans /\ SettlementStart(s, i) <= p.from /\ p.to < SettlementStart(s, i + 1)
      /\ s.from <= p.from /\ p.to <= s.to
  BY <1>3, CutHolds
<1>5. p.from \in Int /\ p.to \in Int
  BY <1>4 DEF Spans
<1>6. /\ SettlementStart(s, i) \in Nat /\ SettlementStart(s, i + 1) \in Nat
      /\ i <= SettlementStart(s, i)
  BY SettlementsPass
<1>7. \A d \in Int : p.from <= d /\ d <= p.to => Lies(s, d, i)
  BY <1>4, <1>5, <1>6 DEF Lies
<1>8. Days(p) \subseteq Days(s)
  BY <1>1, <1>4, <1>5 DEF Days
<1>9. Days(p) \intersect Starts \subseteq {p.from}
  <2>1. SUFFICES ASSUME NEW j \in 0 .. Forever, SettlementStart(s, j) \in Days(p)
                 PROVE  SettlementStart(s, j) = p.from
    OBVIOUS
  <2>2. PICK d \in Int : d = SettlementStart(s, j)
    BY SettlementsPass
  <2>3. p.from <= d /\ d <= p.to
    BY <1>5, <2>1, <2>2 DEF Days
  <2>4. Lies(s, d, i)
    BY <1>7, <2>3
  <2>5. j \in Nat /\ SettlementStart(s, j) < SettlementStart(s, j + 1)
    <3> j \in Nat /\ j + 1 \in Nat /\ j < j + 1
      BY <1>1
    <3> QED
      BY SettlementsFollow
  <2>6. Lies(s, d, j)
    BY <2>2, <2>5 DEF Lies
  <2>7. i = j
    BY <2>4, <2>5, <2>6, LiesInOne
  <2> QED
    BY <1>4, <1>5, <2>2, <2>3, <2>7
<1>10. ASSUME ~Partial(s, p) PROVE p.from \in Starts /\ p.to + 1 \in Starts
  <2>1. Lies(s, p.from, i)
    BY <1>3, <1>5, <1>7
  <2>2. s.startsOn <= p.from
    <3>1. SettlementStart(s, 0) = s.startsOn
      BY FirstSettlement
    <3>2. SettlementStart(s, 0) <= SettlementStart(s, i)
      <4>1. CASE i = 0
        BY <1>6, <4>1
      <4>2. CASE i # 0
        BY <1>1, <1>6, <3>1, <4>2, SettlementsFollow
      <4> QED
        BY <4>1, <4>2
    <3> QED
      BY <1>1, <1>4, <1>5, <1>6, <3>1, <3>2
  <2>3. PICK j \in Nat : Lies(s, p.from, j) /\ SettlementOf(s, p.from) = Settlement(s, j)
    BY <1>5, <2>2, SettlementIs
  <2>4. i = j
    BY <1>5, <2>1, <2>3, LiesInOne
  <2>5. p = Settlement(s, i)
    BY <1>10, <2>3, <2>4 DEF Partial
  <2>6. p.from = SettlementStart(s, i) /\ p.to + 1 = SettlementStart(s, i + 1)
    BY <1>6, <2>5 DEF Settlement
  <2>7. i \in 0 .. Forever /\ i + 1 \in 0 .. Forever
    BY <1>1, <1>3, <1>6
  <2> QED
    BY <2>6, <2>7
<1> QED
  BY <1>8, <1>9, <1>10

LEMMA SettlementsAlwaysTile == ASSUME SettingsInv PROVE SettlementsTile
<1> SUFFICES ASSUME NEW range \in Ranges
    PROVE
    LET given == Summaries(versions, systems, range) IN
    /\ \A entry \in given : entry.days = Days(entry)
    /\ \A system \in Settled(systems) :
         LET periods == {entry \in given : entry.system = system}
             Starts  == {SettlementStart(system, i) : i \in 0 .. Forever}
         IN
         /\ \A date \in Days(range) \intersect Days(system) :
              Cardinality({p \in periods : date \in Days(p)}) =
                IF date >= system.startsOn THEN 1 ELSE 0
         /\ \A p \in periods :
              /\ Days(p) \subseteq Days(system) /\ Days(p) \intersect Starts \subseteq {p.from}
              /\ ~p.partial => p.from \in Starts /\ p.to + 1 \in Starts
  BY Zenon DEF SettlementsTile
<1>1. PICK from \in Int, to \in Int :
        from = range.from /\ to = range.to /\ from <= to /\ to < Forever
  BY PeriodsAssumption DEF Ranges, Dates, Forever
<1>2. range \in [from : Int, to : Int]
  BY PeriodsAssumption DEF Ranges, Dates
<1> DEFINE weeks == ToSet(WeeksBetween(versions, range))
           settlements == UNION {{<<s, p>> : p \in ToSet(SettlementsBetween(s, range))}
                                 : s \in Settled(systems)}
           given == Summaries(versions, systems, range)
<1>3. given = {WeekEntry(w) : w \in weeks}
              \union {SettlementEntry(sp[1], sp[2]) : sp \in settlements}
  BY <1>1, <1>2, SummariesAreWhole
<1>4. ASSUME NEW entry \in given PROVE entry.days = Days(entry)
  <2>1. CASE \E w \in weeks : entry = WeekEntry(w)
    BY <2>1 DEF WeekEntry, Days
  <2>2. CASE \E sp \in settlements : entry = SettlementEntry(sp[1], sp[2])
    <3>1. PICK sp \in settlements : entry = SettlementEntry(sp[1], sp[2])
      BY <2>2
    <3>2. PICK s, p : s = sp[1] /\ p = sp[2]
      OBVIOUS
    <3>3. entry = SettlementEntry(s, p)
      BY <3>1, <3>2
    <3> HIDE DEF settlements
    <3> QED
      BY <3>3 DEF SettlementEntry, Days
  <2> QED
    BY <1>3, <2>1, <2>2
<1>5. ASSUME NEW system \in Settled(systems)
      PROVE
         LET periods == {entry \in given : entry.system = system}
             Starts  == {SettlementStart(system, i) : i \in 0 .. Forever}
         IN
         /\ \A date \in Days(range) \intersect Days(system) :
              Cardinality({p \in periods : date \in Days(p)}) =
                IF date >= system.startsOn THEN 1 ELSE 0
         /\ \A p \in periods :
              /\ Days(p) \subseteq Days(system) /\ Days(p) \intersect Starts \subseteq {p.from}
              /\ ~p.partial => p.from \in Starts /\ p.to + 1 \in Starts
  <2> DEFINE periods == {entry \in given : entry.system = system}
             Starts  == {SettlementStart(system, i) : i \in 0 .. Forever}
  <2>1. IsSettled(system) /\ system # None
    <3>1. system \in Systems /\ system.startsOn # None /\ system.months # None
      BY DEF SettingsInv, Settled
    <3>2. IsSettled(system)
      BY <3>1 DEF Systems, IsSettled
    <3> QED
      BY <3>1, <3>2, EmploymentAssumption
  <2>2. PICK cut : cut = SettlementsBetween(system, range)
    OBVIOUS
  <2>3. SettlesFrom(system, to, from, cut)
    BY <1>1, <1>2, <2>1, <2>2, SettlementsOfRange
  <2>4. periods = {SettlementEntry(system, p) : p \in ToSet(cut)}
    <3>1. ASSUME NEW entry \in periods
          PROVE  entry \in {SettlementEntry(system, p) : p \in ToSet(cut)}
      <4>1. entry \in given /\ entry.system = system
        OBVIOUS
      <4>2. \A w : WeekEntry(w).system = None
        BY DEF WeekEntry
      <4>3. PICK sp \in settlements : entry = SettlementEntry(sp[1], sp[2])
        BY <1>3, <2>1, <4>1, <4>2
      <4>4. PICK s \in Settled(systems) :
              sp \in {<<s, p>> : p \in ToSet(SettlementsBetween(s, range))}
        OBVIOUS
      <4>5. PICK p \in ToSet(SettlementsBetween(s, range)) : sp = <<s, p>>
        BY <4>4
      <4>6. entry = SettlementEntry(s, p)
        BY <4>3, <4>5
      <4>7. s = system
        BY <4>1, <4>6 DEF SettlementEntry
      <4> QED
        BY <2>2, <4>6, <4>7
    <3>2. ASSUME NEW p \in ToSet(cut) PROVE SettlementEntry(system, p) \in periods
      <4>1. PICK sp : sp = <<system, p>>
        OBVIOUS
      <4>2. sp \in settlements /\ sp[1] = system /\ sp[2] = p
        BY <2>2, <4>1
      <4>3. SettlementEntry(system, p) \in given
        <5> HIDE DEF settlements, weeks, given
        <5> QED
          BY <1>3, <4>2
      <4>4. SettlementEntry(system, p).system = system
        BY DEF SettlementEntry
      <4> QED
        BY <4>3, <4>4
    <3> HIDE DEF periods
    <3> QED
      BY <3>1, <3>2
  <2>5. ASSUME NEW date \in Days(range) \intersect Days(system)
        PROVE  Cardinality({p \in periods : date \in Days(p)}) =
                 IF date >= system.startsOn THEN 1 ELSE 0
    <3>1. /\ date \in Int /\ from <= date /\ date <= to /\ system.from <= date /\ date <= system.to
      BY <1>1, <2>1 DEF Days, IsSettled
    <3> HIDE DEF periods
    <3> QED
      BY <2>1, <2>3, <2>4, <3>1, AnsweredOnce
  <2>6. ASSUME NEW entry \in periods
        PROVE  /\ Days(entry) \subseteq Days(system)
               /\ Days(entry) \intersect Starts \subseteq {entry.from}
               /\ ~entry.partial => entry.from \in Starts /\ entry.to + 1 \in Starts
    <3>1. PICK p \in ToSet(cut) : entry = SettlementEntry(system, p)
      <4> HIDE DEF periods
      <4> QED
        BY <2>4
    <3>2. /\ Days(p) \subseteq Days(system) /\ Days(p) \intersect Starts \subseteq {p.from}
          /\ ~Partial(system, p) => p.from \in Starts /\ p.to + 1 \in Starts
      BY <1>1, <2>1, <2>3, AnsweredWithin
    <3>3. /\ Days(entry) = Days(p) /\ entry.from = p.from /\ entry.to = p.to
          /\ entry.partial = Partial(system, p)
      BY <3>1 DEF SettlementEntry, Days
    <3> HIDE DEF Starts, periods
    <3> QED
      BY <3>2, <3>3
  <2> HIDE DEF periods, Starts, given
  <2>7. /\ \A date \in Days(range) \intersect Days(system) :
              Cardinality({p \in periods : date \in Days(p)}) =
                IF date >= system.startsOn THEN 1 ELSE 0
        /\ \A p \in periods :
              /\ Days(p) \subseteq Days(system) /\ Days(p) \intersect Starts \subseteq {p.from}
              /\ ~p.partial => p.from \in Starts /\ p.to + 1 \in Starts
    BY <2>5, <2>6
  <2> QED
    BY <2>7, Zenon DEF periods, Starts
<1> HIDE DEF given
<1>6. /\ \A entry \in given : entry.days = Days(entry)
      /\ \A system \in Settled(systems) :
         LET periods == {entry \in given : entry.system = system}
             Starts  == {SettlementStart(system, i) : i \in 0 .. Forever}
         IN
         /\ \A date \in Days(range) \intersect Days(system) :
              Cardinality({p \in periods : date \in Days(p)}) =
                IF date >= system.startsOn THEN 1 ELSE 0
         /\ \A p \in periods :
              /\ Days(p) \subseteq Days(system) /\ Days(p) \intersect Starts \subseteq {p.from}
              /\ ~p.partial => p.from \in Starts /\ p.to + 1 \in Starts
  BY <1>4, <1>5, Zenon
<1> QED
  BY <1>6, Zenon DEF given

LEMMA InitSettingsInv == InitEmployment => SettingsInv
BY FS_EmptySet DEF InitEmployment, SettingsInv

LEMMA StepSettingsInv == SettingsInv /\ [NextEmployment]_employmentVars => SettingsInv'
<1> SUFFICES ASSUME SettingsInv, [NextEmployment]_employmentVars PROVE SettingsInv'
  OBVIOUS
<1>1. ASSUME UNCHANGED <<versions, systems>> PROVE SettingsInv'
  BY <1>1 DEF SettingsInv
<1>2. CASE UNCHANGED employmentVars
  BY <1>1, <1>2 DEF employmentVars, settingVars
<1>3. ASSUME NEW version \in VersionsOffered, CreateCalculationRuleVersion(version)
      PROVE  SettingsInv'
  <2>1. versions' = versions \union {version} /\ systems' = systems /\ version \in Versions
    BY <1>3, EmploymentAssumption DEF CreateCalculationRuleVersion
  <2> QED
    BY <2>1, FS_AddElement DEF SettingsInv
<1>4. ASSUME NEW system \in SystemsOffered, AssignLaborSystem(system) PROVE SettingsInv'
  <2>1. systems' = systems \union {system} /\ versions' = versions /\ system \in Systems
    BY <1>4, EmploymentAssumption DEF AssignLaborSystem
  <2> QED
    BY <2>1, FS_AddElement DEF SettingsInv
<1>5. ASSUME NEW system \in systems, NEW effectiveTo \in Dates,
             EndLaborSystemAssignment(system, effectiveTo)
      PROVE  SettingsInv'
  <2> DEFINE ended == [system EXCEPT !.to = effectiveTo]
  <2>1. systems' = (systems \ {system}) \union {ended} /\ versions' = versions
    BY <1>5 DEF EndLaborSystemAssignment
  <2>2. ended \in Systems
    <3>1. effectiveTo \in Int /\ system \in Systems
      BY PeriodsAssumption DEF Dates, SettingsInv
    <3> QED
      BY <3>1 DEF Systems
  <2> HIDE DEF ended
  <2>3. IsFiniteSet(systems \ {system})
    BY FS_Subset DEF SettingsInv
  <2> QED
    BY <2>1, <2>2, <2>3, FS_AddElement DEF SettingsInv
<1>6. CASE \/ \E t \in Tokens, e \in Employees : CreateRegistration(t, e)
           \/ \E c \in Clients, t \in Tokens, f \in Fingerprints : RegisterCard(c, t, f)
           \/ \E c \in Clients, card \in cards : RevokeCredential(c, card)
           \/ \E c \in Clients, e \in Employees, to \in Statuses : ChangeEmployeeStatus(c, e, to)
           \/ \E contract \in ContractsOffered : CreateContract(contract)
           \/ \E e \in Employees, contract \in contracts, term \in Terms :
                CreateAssignment(e, contract, term)
           \/ \E assignment \in assignments, endsOn \in Dates : EndAssignment(assignment, endsOn)
           \/ \E c \in Clients : CardStep(c)
  <2>1. UNCHANGED <<versions, systems>>
    BY <1>6 DEF CreateRegistration, RegisterCard, RevokeCredential, ChangeEmployeeStatus,
                CreateContract, CreateAssignment, EndAssignment, CardStep, settingVars
  <2> QED
    BY <1>1, <2>1
<1> QED
  BY <1>2, <1>3, <1>4, <1>5, <1>6 DEF NextEmployment, Begin

LEMMA AlwaysSettingsInv == EmploymentSpec => []SettingsInv
BY InitSettingsInv, StepSettingsInv, PTL DEF EmploymentSpec

(***************************************************************************)
(* Whatever versions of the rules and labor systems are made, ended or     *)
(* prolonged: weeks and settlement periods leave out no date and share     *)
(* none, a date is in the same week whichever range asks for it, and what  *)
(* is answered adds up every day of its period (attendance/period.ts).     *)
(***************************************************************************)
THEOREM PeriodsAlwaysTile == EmploymentSpec => []PeriodsTile
<1>1. SettingsInv => PeriodsTile
  BY WeeksAlwaysTile, SettlementsAlwaysTile DEF SettingsInv, PeriodsTile
<1> QED
  BY <1>1, AlwaysSettingsInv, PTL
=============================================================================
