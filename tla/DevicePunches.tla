--------------------------- MODULE DevicePunches ---------------------------
(***************************************************************************)
(* One punch device and the server that takes its signed punches:          *)
(* packages/agent/src/{cli.ts, service/{spool,station,runner,sender}.ts}   *)
(* and recordEvent/recordCardEvent of packages/api/src/{device,card}.      *)
(*                                                                         *)
(* On the device, producers (the card reader of `station`, every call of   *)
(* `queue`) take a number from the credentials file and put a file into    *)
(* the spool directory; one sender flushes the directory.  They share      *)
(* nothing but those files and lock none of them, so each file operation   *)
(* is an action.  On the server a request is authenticated outside the     *)
(* transaction and recorded inside one that holds the row of the device.   *)
(* Requests may be delayed for ever and answers lost; the sender then      *)
(* sends the same punch again while an older request is still on its way.  *)
(***************************************************************************)
EXTENDS Naturals, Sequences, FiniteSets

CONSTANTS
  Punches,     \* punches, each with the request id it was given
  Producers,   \* processes and loops that put punches into the spool
  NoPunch

ASSUME DeviceAssumption == NoPunch \notin Punches

VARIABLES
  nextSequence,  \* the number in the credentials file
  pc, held, read,    \* per producer: where it stands, its punch, what it read
  sequence,      \* the number written into a punch, 0 before it has one
  prefix,        \* the number its file name begins with, 0 when there is no file
  torn,          \* punches whose file can no longer be parsed
  unreadable,    \* punches whose file was set aside as .unreadable
  batch,         \* what the running flush listed and has not finished with
  awaited,       \* the punch the sender waits for an answer to
  answer,        \* the answer that reached the sender
  sent, dropped, \* punches the sender took out of the spool, by outcome
  requests,      \* requests on their way to the server or inside it
  active,        \* devices.state = 'active'
  lastSequence,  \* devices.last_sequence
  receipts,      \* device_event_receipts, by request id
  recorded       \* attendance events in the order they were inserted

producerVars == <<nextSequence, pc, held, read, sequence>>
senderVars == <<batch, awaited, answer, sent, dropped>>
serverVars == <<active, lastSequence, receipts, recorded>>
vars == <<producerVars, prefix, torn, unreadable, senderVars, requests, serverVars>>

Stages == {"arrived", "authenticated"}
Answers == {"none", "accepted", "rejected", "retry"}
Receipts == {"none", "accepted", "rejected", "replay"}

TypeOK ==
  /\ nextSequence \in Nat \ {0}
  /\ pc \in [Producers -> {"idle", "loaded", "numbered", "listed"}]
  /\ held \in [Producers -> Punches \union {NoPunch}]
  /\ read \in [Producers -> Nat]
  /\ sequence \in [Punches -> Nat]
  /\ prefix \in [Punches -> Nat]
  /\ torn \subseteq Punches /\ unreadable \subseteq torn
  /\ batch \subseteq Punches
  /\ awaited \in Punches \union {NoPunch}
  /\ answer \in Answers
  /\ sent \subseteq Punches /\ dropped \subseteq Punches
  /\ requests \subseteq Punches \X Stages
  /\ active \in BOOLEAN
  /\ lastSequence \in Nat
  /\ receipts \in [Punches -> Receipts]
  /\ recorded \in Seq(Punches)

Init ==
  /\ nextSequence = 1
  /\ pc = [p \in Producers |-> "idle"]
  /\ held = [p \in Producers |-> NoPunch]
  /\ read = [p \in Producers |-> 0]
  /\ sequence = [x \in Punches |-> 0]
  /\ prefix = [x \in Punches |-> 0]
  /\ torn = {} /\ unreadable = {}
  /\ batch = {} /\ awaited = NoPunch /\ answer = "none"
  /\ sent = {} /\ dropped = {}
  /\ requests = {}
  /\ active = TRUE /\ lastSequence = 0
  /\ receipts = [x \in Punches |-> "none"]
  /\ recorded = <<>>

\* The files of the spool directory that end in .json.
Pending == {x \in Punches : prefix[x] > 0}

-----------------------------------------------------------------------------
(***************************************************************************)
(* A producer: a card is read or `queue` is called, allocateSequence loads *)
(* the credentials and saves them again, spool.add lists the directory and *)
(* renames its temporary file to the next name.                            *)
(***************************************************************************)
LoadCredentials(p, x) ==
  /\ pc[p] = "idle"
  /\ sequence[x] = 0 /\ \A q \in Producers : held[q] # x
  /\ held' = [held EXCEPT ![p] = x]
  /\ read' = [read EXCEPT ![p] = nextSequence]
  /\ pc' = [pc EXCEPT ![p] = "loaded"]
  /\ UNCHANGED <<nextSequence, sequence, prefix, torn, unreadable, senderVars, requests,
                 serverVars>>

SaveCredentials(p) ==
  /\ pc[p] = "loaded"
  /\ nextSequence' = read[p] + 1
  /\ sequence' = [sequence EXCEPT ![held[p]] = read[p]]
  /\ pc' = [pc EXCEPT ![p] = "numbered"]
  /\ UNCHANGED <<held, read, prefix, torn, unreadable, senderVars, requests, serverVars>>

\* The largest prefix in the directory, 0 when it is empty.
IsLastPrefix(n) ==
  /\ \A x \in Pending : prefix[x] <= n
  /\ n = 0 \/ \E x \in Pending : prefix[x] = n

ListDirectory(p) ==
  /\ pc[p] = "numbered"
  /\ \E n \in {0} \union {prefix[x] : x \in Pending} :
       IsLastPrefix(n) /\ read' = [read EXCEPT ![p] = n]
  /\ pc' = [pc EXCEPT ![p] = "listed"]
  /\ UNCHANGED <<nextSequence, held, sequence, prefix, torn, unreadable, senderVars, requests,
                 serverVars>>

\* Mutant: the new file takes the number of the last one instead of the next.
AddUnderLast(p) ==
  /\ pc[p] = "listed"
  /\ prefix' = [prefix EXCEPT ![held[p]] = IF read[p] = 0 THEN 1 ELSE read[p]]
  /\ held' = [held EXCEPT ![p] = NoPunch]
  /\ pc' = [pc EXCEPT ![p] = "idle"]
  /\ UNCHANGED <<nextSequence, read, sequence, torn, unreadable, senderVars, requests, serverVars>>

Add(p) ==
  /\ pc[p] = "listed"
  /\ prefix' = [prefix EXCEPT ![held[p]] = read[p] + 1]
  /\ held' = [held EXCEPT ![p] = NoPunch]
  /\ pc' = [pc EXCEPT ![p] = "idle"]
  /\ UNCHANGED <<nextSequence, read, sequence, torn, unreadable, senderVars, requests, serverVars>>

\* The process dies: a number that was saved is skipped, the punch was never filed.
ProducerCrash(p) ==
  /\ pc[p] # "idle"
  /\ held' = [held EXCEPT ![p] = NoPunch]
  /\ pc' = [pc EXCEPT ![p] = "idle"]
  /\ UNCHANGED <<nextSequence, read, sequence, prefix, torn, unreadable, senderVars, requests,
                 serverVars>>

\* The disk damages a file.
Tear(x) ==
  /\ x \in Pending \ torn
  /\ torn' = torn \union {x}
  /\ UNCHANGED <<producerVars, prefix, unreadable, senderVars, requests, serverVars>>

-----------------------------------------------------------------------------
(***************************************************************************)
(* The sender: flushSpool.                                                 *)
(***************************************************************************)
\* spool.list: what cannot be parsed is renamed and left for a person.
List ==
  /\ batch = {} /\ awaited = NoPunch
  /\ Pending # {}
  /\ unreadable' = unreadable \union (Pending \intersect torn)
  /\ prefix' = [x \in Punches |-> IF x \in torn THEN 0 ELSE prefix[x]]
  /\ batch' = Pending \ torn
  /\ UNCHANGED <<producerVars, torn, awaited, answer, sent, dropped, requests, serverVars>>

\* The first of the batch in the order of file names; equal prefixes are ordered by
\* the request id, which is random.
IsFirst(x) == x \in batch /\ \A y \in batch : prefix[x] <= prefix[y]

Send(x) ==
  /\ awaited = NoPunch /\ IsFirst(x)
  /\ awaited' = x
  /\ requests' = requests \union {<<x, "arrived">>}
  /\ UNCHANGED <<producerVars, prefix, torn, unreadable, batch, answer, sent, dropped, serverVars>>

\* Mutant: a rejected punch stays in the spool.
RemoveAccepted(x) ==
  /\ awaited = x /\ answer = "accepted"
  /\ prefix' = [prefix EXCEPT ![x] = 0]
  /\ sent' = sent \union {x}
  /\ batch' = batch \ {x}
  /\ awaited' = NoPunch /\ answer' = "none"
  /\ UNCHANGED <<producerVars, torn, unreadable, dropped, requests, serverVars>>

RemoveSpooled(x) ==
  /\ awaited = x /\ answer \in {"accepted", "rejected"}
  /\ prefix' = [prefix EXCEPT ![x] = 0]
  /\ sent' = IF answer = "accepted" THEN sent \union {x} ELSE sent
  /\ dropped' = IF answer = "rejected" THEN dropped \union {x} ELSE dropped
  /\ batch' = batch \ {x}
  /\ awaited' = NoPunch /\ answer' = "none"
  /\ UNCHANGED <<producerVars, torn, unreadable, requests, serverVars>>

\* Mutant: the flush goes on with the next punch.
FlushSkips ==
  /\ awaited # NoPunch
  /\ batch' = batch \ {awaited}
  /\ awaited' = NoPunch /\ answer' = "none"
  /\ UNCHANGED <<producerVars, prefix, torn, unreadable, sent, dropped, requests, serverVars>>

\* No answer, an answer that asks for another try, or the process dies and starts
\* again: in each case the rest of the batch stays in the spool for the next flush.
FlushPaused ==
  /\ batch # {}
  /\ batch' = {}
  /\ awaited' = NoPunch /\ answer' = "none"
  /\ UNCHANGED <<producerVars, prefix, torn, unreadable, sent, dropped, requests, serverVars>>

-----------------------------------------------------------------------------
(***************************************************************************)
(* The server.                                                             *)
(***************************************************************************)
\* Mutant: any answer is taken for the answer to the punch that is awaited.
ReplyToAnyone(x, stage, a) ==
  /\ requests' = requests \ {<<x, stage>>}
  /\ answer' = IF awaited # NoPunch /\ answer = "none" THEN a ELSE answer
  /\ UNCHANGED <<producerVars, prefix, torn, unreadable, batch, awaited, sent, dropped>>

\* The request is done with; the sender learns the answer if it still waits.
Reply(x, stage, a) ==
  /\ requests' = requests \ {<<x, stage>>}
  /\ answer' = IF awaited = x /\ answer = "none" THEN a ELSE answer
  /\ UNCHANGED <<producerVars, prefix, torn, unreadable, batch, awaited, sent, dropped>>

\* findForSignature and verifySignature, outside the transaction.
Authenticate(x) ==
  /\ <<x, "arrived">> \in requests /\ active
  /\ requests' = (requests \ {<<x, "arrived">>}) \union {<<x, "authenticated">>}
  /\ UNCHANGED <<producerVars, prefix, torn, unreadable, senderVars, serverVars>>

\* 401 for a device that is not active, 400 for a time outside the accepted range.
Refuse(x) ==
  /\ <<x, "arrived">> \in requests
  /\ Reply(x, "arrived", "rejected")
  /\ UNCHANGED serverVars

\* A receipt of the same request id: the first answer again.
AnswerFromReceipt(x) ==
  /\ <<x, "authenticated">> \in requests /\ receipts[x] # "none"
  /\ Reply(x, "authenticated", IF receipts[x] = "accepted" THEN "accepted" ELSE "rejected")
  /\ UNCHANGED serverVars

\* evaluateSequence: a number that is not above the last accepted one is a replay.
IsReplay(x) == sequence[x] <= lastSequence

RejectReplay(x) ==
  /\ <<x, "authenticated">> \in requests /\ receipts[x] = "none" /\ IsReplay(x)
  /\ receipts' = [receipts EXCEPT ![x] = "replay"]
  /\ Reply(x, "authenticated", "rejected")
  /\ UNCHANGED <<active, lastSequence, recorded>>

\* Unknown employee or card, or the day does not take the punch: the rejection is kept
\* in a receipt and the number of the device does not advance.
RejectPunch(x) ==
  /\ <<x, "authenticated">> \in requests /\ receipts[x] = "none" /\ ~IsReplay(x)
  /\ receipts' = [receipts EXCEPT ![x] = "rejected"]
  /\ Reply(x, "authenticated", "rejected")
  /\ UNCHANGED <<active, lastSequence, recorded>>

Accept(x) ==
  /\ <<x, "authenticated">> \in requests /\ receipts[x] = "none" /\ ~IsReplay(x)
  /\ receipts' = [receipts EXCEPT ![x] = "accepted"]
  /\ recorded' = Append(recorded, x)
  /\ lastSequence' = sequence[x]
  /\ Reply(x, "authenticated", "accepted")
  /\ UNCHANGED active

\* The transaction fails and is rolled back: 5xx.
ServerError(x) ==
  /\ <<x, "authenticated">> \in requests
  /\ Reply(x, "authenticated", "retry")
  /\ UNCHANGED serverVars

Revoke ==
  /\ active
  /\ active' = FALSE
  /\ UNCHANGED <<producerVars, prefix, torn, unreadable, senderVars, requests, lastSequence,
                 receipts, recorded>>

-----------------------------------------------------------------------------
Produce(p) ==
  \/ \E x \in Punches : LoadCredentials(p, x)
  \/ SaveCredentials(p) \/ ListDirectory(p) \/ Add(p) \/ ProducerCrash(p)

Flush == List \/ FlushPaused \/ \E x \in Punches : Send(x) \/ RemoveSpooled(x)

\* What recordEvent decides inside its transaction.
Decide(x) == AnswerFromReceipt(x) \/ RejectReplay(x) \/ RejectPunch(x) \/ Accept(x)

Serve(x) == Authenticate(x) \/ Refuse(x) \/ Decide(x) \/ ServerError(x)

Next ==
  \/ \E p \in Producers : Produce(p)
  \/ Flush
  \/ \E x \in Punches : Tear(x) \/ Serve(x)
  \/ Revoke

Spec == Init /\ [][Next]_vars

(***************************************************************************)
(* The sender keeps going round its loop, and the outside is not hopeless: *)
(* whatever is sent again and again, some request is in the end answered   *)
(* before the sender gives up on it, and the answer is acted on.           *)
(***************************************************************************)
Received(x) == awaited = x /\ (Authenticate(x) \/ Refuse(x))
Answered(x) == awaited = x /\ answer = "none" /\ Decide(x)

Fairness ==
  /\ WF_vars(List) /\ WF_vars(answer = "retry" /\ FlushPaused)
  /\ SF_vars(\E x \in Punches : Send(x))
  /\ SF_vars(\E x \in Punches : RemoveSpooled(x))
  /\ SF_vars(\E x \in Punches : Received(x))
  /\ SF_vars(\E x \in Punches : Answered(x))

LiveSpec == Spec /\ Fairness
-----------------------------------------------------------------------------
(***************************************************************************)
(* Properties.                                                             *)
(***************************************************************************)

\* File names sort as the numbers of the punches do, although the directory is emptied
\* and filled at the same time and names start again from 1 (spool.ts:18).
SpoolInOrder ==
  \A x, y \in Pending : x # y =>
    prefix[x] # prefix[y] /\ (prefix[x] < prefix[y] => sequence[x] < sequence[y])

\* Attendance events of the device are recorded once each, in the order of their numbers,
\* whatever was sent twice, late or while an older request was still on its way.
RecordedInOrder ==
  \A i, j \in DOMAIN recorded : i < j => sequence[recorded[i]] < sequence[recorded[j]]

\* What the sender removed as accepted is an attendance event.
SentIsRecorded ==
  \A x \in sent : \E i \in DOMAIN recorded : recorded[i] = x

\* A punch that still waits in the spool is never refused for its number: lost answers,
\* crashes and gaps cost no punch (spool.ts:21-25, runner.ts:11-12).
PendingNeverReplayed ==
  [][\A x \in Pending : receipts[x] = "none" => receipts'[x] # "replay"]_vars

\* No punch stays in the spool for ever because of another one.
EveryPunchLeavesSpool ==
  \A x \in Punches : x \in Pending ~> x \notin Pending
=============================================================================
