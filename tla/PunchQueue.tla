----------------------------- MODULE PunchQueue -----------------------------
(***************************************************************************)
(* The queue of punches a browser keeps while they cannot be sent          *)
(* (packages/web/src/offline/punch-queue.ts) and the page that owns it     *)
(* (packages/web/src/pages/TodayAttendance.tsx).  The queue lives in       *)
(* localStorage under a key made of workspace, user and employee, so one   *)
(* owner is modelled: another owner has a key of its own.  Every page that *)
(* is open holds a queue object: two tabs hold two, and a page that was    *)
(* left while its request was on its way still holds one beside the page   *)
(* that is opened next.                                                    *)
(*                                                                         *)
(* A punch stands for its request id: occurredAt, type and location are    *)
(* fixed when it is pressed.  attempts is left out (nothing reads it); the *)
(* write that stores it is kept.  The older format of the queue is only    *)
(* ever read, to show that it is there, and is left out.                   *)
(***************************************************************************)
EXTENDS Integers, SequencesExt

CONSTANTS
    Punches,     \* presses of the punch button, by the id they would be sent with
    Pages,       \* queue objects: the pages open at the same time
    Garbage,     \* contents of the storage that parseStored does not accept
    MaxMishaps   \* bound: storage faults, failed requests and pages left, in all

\* What can be parsed is a queue.
ASSUME QueueAssumption == MaxMishaps \in Nat /\ \A g \in Garbage : g \notin Seq(Punches)

VARIABLES
    disk,        \* localStorage: the queue's key and the key of the archive
    page,        \* what each queue object holds
    recorded,    \* the punches the server recorded
    wire,        \* requests whose sender gave up waiting: they may yet arrive
    fate,        \* what became of each press
    mishaps,     \* how often something went wrong
    shown,       \* history: the punches accepted into a queue, in that order
    current,     \* history: the pages that know what the storage now holds
    overwritten  \* history: punches a page that did not know it wrote over

queueVars == <<disk, page, recorded, wire, fate, mishaps, shown, current, overwritten>>

Reasons == {"none", "authentication_required", "permission_blocked", "retry_later",
            "storage_read_unavailable", "storage_write_unavailable"}

Idle == [punch |-> "none", answer |-> "none"]

Sending == {Idle} \cup [punch : Punches, answer : {"none", "accepted", "rejected"}]

Queues == SeqOf(Punches, Cardinality(Punches))

\* No queue object: the page was never opened, or is closed.
Closed == [phase |-> "closed", pending |-> <<>>, readable |-> TRUE, unreadable |-> {},
           blocked |-> "none", sending |-> Idle, measuring |-> {}]

\* The state is well-typed: a queue holds a punch once, flushing is having a
\* punch on its way, and that punch is the head of the queue (the answer removes
\* the head, whichever punch it was for); a page that could not read the storage
\* holds nothing and sends nothing ("この値が false の間に行列の中身が増えることはない").
TypeOK ==
    /\ disk \in [queue : Queues \cup Garbage, archive : SUBSET Garbage]
    /\ page \in [Pages -> [phase : {"closed", "open", "left"}, pending : Queues,
                           readable : BOOLEAN, unreadable : SUBSET Garbage,
                           blocked : Reasons, sending : Sending,
                           measuring : SUBSET Punches]]
    /\ \A o \in Pages :
          /\ IsInjective(page[o].pending)
          /\ page[o].sending # Idle =>
                /\ page[o].pending # <<>>
                /\ page[o].sending.punch = Head(page[o].pending)
          /\ ~page[o].readable => /\ page[o].pending = <<>>
                                  /\ page[o].blocked = "storage_read_unavailable"
          /\ page[o].phase = "left" => page[o].sending # Idle
    /\ recorded \subseteq Punches /\ wire \subseteq Punches
    /\ fate \in [Punches -> {"unused", "measuring", "late", "shown", "stands_for_stored",
                             "refused", "rejected", "discarded", "ignored", "gone"}]
    /\ mishaps \in 0..MaxMishaps
    /\ shown \in Queues /\ current \subseteq Pages /\ overwritten \subseteq Punches

InitQueue ==
    /\ disk \in [queue : {<<>>} \cup Garbage, archive : {{}}]
    /\ page = [o \in Pages |-> Closed]
    /\ recorded = {} /\ wire = {}
    /\ fate = [p \in Punches |-> "unused"]
    /\ mishaps = 0
    /\ shown = <<>> /\ current = {} /\ overwritten = {}
-----------------------------------------------------------------------------
(***************************************************************************)
(* The storage.  A read or a write may throw; what the code makes of it is *)
(* a return value.  archiveUnreadable reads and writes the archive before  *)
(* the queue's own key is written, so a write can fail with the unreadable *)
(* content already archived.                                               *)
(***************************************************************************)

Mishap == mishaps < MaxMishaps /\ mishaps' = mishaps + 1

\* A plausible error: content that cannot be parsed is read as an empty queue.
RestoredAsEmpty(o) ==
    [o EXCEPT !.readable = TRUE,
              !.pending = IF disk.queue \in Garbage THEN <<>> ELSE disk.queue,
              !.unreadable = {},
              !.blocked = IF @ = "storage_read_unavailable" THEN "none" ELSE @]

\* What a queue object reads: the punches, or content it sets aside.
Restored(o) ==
    [o EXCEPT !.readable = TRUE,
              !.pending = IF disk.queue \in Garbage THEN <<>> ELSE disk.queue,
              !.unreadable = IF disk.queue \in Garbage THEN {disk.queue} ELSE {},
              !.blocked = IF @ = "storage_read_unavailable" THEN "none" ELSE @]

Unread(o) == [o EXCEPT !.readable = FALSE, !.blocked = "storage_read_unavailable"]

Archived(o) == disk.archive \cup o.unreadable

\* persistEntries returns true.  The history: only this page now knows what the
\* storage holds, and what it did not know of is gone.
Stores(id, o, entries) ==
    /\ disk' = [queue |-> entries, archive |-> Archived(o)]
    /\ current' = {id}
    /\ overwritten' = IF id \in current \/ disk.queue \in Garbage THEN overwritten
                      ELSE overwritten \cup (Range(disk.queue) \ Range(entries))

\* persistEntries returns false, before or after the archive was written: what
\* the page then holds is o2.
StoreFails(o, o2) ==
    /\ \/ o2 = o /\ UNCHANGED disk
       \/ /\ o.unreadable # {}
          /\ o2 = [o EXCEPT !.unreadable = {}]
          /\ disk' = [disk EXCEPT !.archive = Archived(o)]
    /\ UNCHANGED <<current, overwritten>>

AfterStoreFails(o) == {o, [o EXCEPT !.unreadable = {}]}

Blocked(o, reason) == [o EXCEPT !.blocked = reason]
-----------------------------------------------------------------------------
(***************************************************************************)
(* The life of a page: createPunchQueue on mount, dispose when the page is *)
(* left, and a tab that is closed or reloaded.                             *)
(***************************************************************************)

Open(id) ==
    /\ page[id].phase = "closed"
    /\ \/ /\ page' = [page EXCEPT ![id] = Restored([Closed EXCEPT !.phase = "open"])]
          /\ current' = current \cup {id}
          /\ UNCHANGED mishaps
       \/ /\ page' = [page EXCEPT ![id] = Unread([Closed EXCEPT !.phase = "open"])]
          /\ Mishap
          /\ UNCHANGED current
    /\ UNCHANGED <<disk, recorded, wire, fate, shown, overwritten>>

\* The disposed queue stays for the answer it waits for and for the locations
\* that are still being measured.
Dispose(id) ==
    /\ page[id].phase = "open"
    /\ Mishap
    /\ page' = [page EXCEPT ![id] =
                   IF @.sending = Idle THEN Closed
                   ELSE [@ EXCEPT !.phase = "left", !.measuring = {}]]
    /\ fate' = [p \in Punches |-> IF p \in page[id].measuring THEN "late" ELSE fate[p]]
    /\ current' = IF page[id].sending = Idle THEN current \ {id} ELSE current
    /\ UNCHANGED <<disk, recorded, wire, shown, overwritten>>

Close(id) ==
    /\ page[id].phase # "closed"
    /\ Mishap
    /\ page' = [page EXCEPT ![id] = Closed]
    /\ wire' = IF page[id].sending = Idle \/ page[id].sending.answer # "none" THEN wire
               ELSE wire \cup {page[id].sending.punch}
    /\ fate' = [p \in Punches |-> IF p \in page[id].measuring THEN "gone" ELSE fate[p]]
    /\ current' = current \ {id}
    /\ UNCHANGED <<disk, recorded, shown, overwritten>>
-----------------------------------------------------------------------------
(***************************************************************************)
(* enqueue and flush.  A punch is pressed, its location is measured where  *)
(* the employee's organization asks for it, and then it is enqueued.       *)
(***************************************************************************)

\* The body of flush's loop up to the send; a flush under way is left alone.
Send(o) ==
    IF o.sending # Idle \/ o.pending = <<>> THEN o
    ELSE [o EXCEPT !.sending = [punch |-> Head(o.pending), answer |-> "none"]]

Press(id, p) ==
    /\ page[id].phase = "open"
    /\ fate[p] = "unused"
    /\ fate' = [fate EXCEPT ![p] = "measuring"]
    /\ page' = [page EXCEPT ![id].measuring = @ \cup {p}]
    /\ UNCHANGED <<disk, recorded, wire, mishaps, shown, current, overwritten>>

\* enqueue's last part: stored first, then held, then sent.
Accept(id, o, p) ==
    LET entries == Append(o.pending, p)
        held == [o EXCEPT !.pending = entries, !.blocked = "none", !.unreadable = {}]
    IN  /\ Stores(id, o, entries)
        /\ UNCHANGED mishaps
        /\ page' = [page EXCEPT ![id] = Send(held)]
        /\ fate' = [fate EXCEPT ![p] = "shown"]
        /\ shown' = Append(shown, p)

\* A plausible error: the punch is held and shown although it was not stored.
HoldAnyway(id, o, p) ==
    /\ Mishap
    /\ StoreFails(o, o)
    /\ page' = [page EXCEPT ![id] = Send([o EXCEPT !.pending = Append(@, p)])]
    /\ fate' = [fate EXCEPT ![p] = "shown"]
    /\ shown' = Append(shown, p)

RefuseToHold(id, o, p) ==
    /\ Mishap
    /\ \E o2 \in AfterStoreFails(o) :
          /\ StoreFails(o, o2)
          /\ page' = [page EXCEPT ![id] = Blocked(o2, "storage_write_unavailable")]
    /\ fate' = [fate EXCEPT ![p] = "refused"]
    /\ UNCHANGED shown

Measured(id, p) == [page[id] EXCEPT !.measuring = @ \ {p}]

Enqueue(id, p) ==
    /\ p \in page[id].measuring
    /\ page[id].readable
    /\ Accept(id, Measured(id, p), p) \/ RefuseToHold(id, Measured(id, p), p)
    /\ UNCHANGED <<recorded, wire>>

\* enqueue on a queue that could not read the storage reads it again; if it finds
\* punches there, the press stands for them and adds none.
EnqueueUnread(id, p) ==
    /\ p \in page[id].measuring
    /\ ~page[id].readable
    /\ \/ /\ page' = [page EXCEPT ![id] = Measured(id, p)]
          /\ fate' = [fate EXCEPT ![p] = "refused"]
          /\ Mishap
          /\ UNCHANGED <<disk, shown, current, overwritten>>
       \/ /\ Restored(page[id]).pending # <<>>
          /\ page' = [page EXCEPT ![id] = Send(Restored(Measured(id, p)))]
          /\ fate' = [fate EXCEPT ![p] = "stands_for_stored"]
          /\ current' = current \cup {id}
          /\ UNCHANGED <<disk, mishaps, shown, overwritten>>
       \/ /\ Restored(page[id]).pending = <<>>
          /\ \/ Accept(id, Restored(Measured(id, p)), p)
             \/ RefuseToHold(id, Restored(Measured(id, p)), p)
    /\ UNCHANGED <<recorded, wire>>

\* enqueue on a disposed queue returns at once.
EnqueueLate(p) ==
    /\ fate[p] = "late"
    /\ fate' = [fate EXCEPT ![p] = "ignored"]
    /\ UNCHANGED <<disk, page, recorded, wire, mishaps, shown, current, overwritten>>

\* A plausible error: a queue that was refused for the session is not tried again.
FlushUnlessRefused(id) ==
    LET o == page[id] IN
    /\ o.phase = "open"
    /\ o.sending = Idle
    /\ o.blocked \notin {"authentication_required", "permission_blocked"}
    /\ o.pending # <<>>
    /\ page' = [page EXCEPT ![id] = Send(o)]
    /\ UNCHANGED <<disk, recorded, wire, fate, mishaps, shown, current, overwritten>>

\* flush: the page is ready, the line is back, or a button is pressed.  A read that
\* fails again changes nothing.
Flush(id) ==
    LET o == page[id] IN
    /\ o.phase = "open"
    /\ o.sending = Idle
    /\ \/ /\ o.readable /\ o.pending # <<>>
          /\ page' = [page EXCEPT ![id] = Send(o)]
          /\ UNCHANGED <<mishaps, current>>
       \/ /\ ~o.readable
          /\ page' = [page EXCEPT ![id] = Send(Restored(o))]
          /\ current' = current \cup {id}
          /\ UNCHANGED mishaps
    /\ UNCHANGED <<disk, recorded, wire, fate, shown, overwritten>>
-----------------------------------------------------------------------------
(***************************************************************************)
(* The server and its answer.  A request id that was recorded before is    *)
(* accepted again without a second record; otherwise the server may reject *)
(* the punch for good (400 invalid_request, 409 conflict).                 *)
(***************************************************************************)

Arrives(id) ==
    LET o == page[id] IN
    /\ o.sending # Idle /\ o.sending.answer = "none"
    /\ \/ /\ recorded' = recorded \cup {o.sending.punch}
          /\ page' = [page EXCEPT ![id].sending.answer = "accepted"]
       \/ /\ o.sending.punch \notin recorded
          /\ page' = [page EXCEPT ![id].sending.answer = "rejected"]
          /\ UNCHANGED recorded
    /\ UNCHANGED <<disk, wire, fate, mishaps, shown, current, overwritten>>

\* A request nobody waits for any more arrives, or is lost.
ArrivesLate(p) ==
    /\ p \in wire
    /\ wire' = wire \ {p}
    /\ recorded' \in {recorded, recorded \cup {p}}
    /\ UNCHANGED <<disk, page, fate, mishaps, shown, current, overwritten>>

\* The flush is over; a disposed queue has nothing left to do.
FlushEnded(o) == IF o.phase = "left" THEN Closed ELSE [o EXCEPT !.sending = Idle]

\* The answer is final: the head leaves the storage and then the queue, and a page
\* that is still there goes on to the next punch.
Answered(id) ==
    LET o == page[id]
        rest == [o EXCEPT !.pending = Tail(@), !.blocked = "none", !.unreadable = {},
                          !.sending = Idle]
        p == o.sending.punch
    IN  /\ o.sending # Idle /\ o.sending.answer # "none"
        /\ \/ /\ Stores(id, o, Tail(o.pending))
              /\ UNCHANGED mishaps
              /\ page' = [page EXCEPT ![id] =
                              IF o.phase = "left" THEN Closed ELSE Send(rest)]
              /\ fate' = IF o.sending.answer = "accepted" THEN fate
                         ELSE [fate EXCEPT ![p] = IF o.phase = "left" THEN "discarded"
                                                  ELSE "rejected"]
           \/ /\ Mishap
              /\ \E o2 \in AfterStoreFails(o) :
                    /\ StoreFails(o, o2)
                    /\ page' = [page EXCEPT ![id] =
                                    FlushEnded(Blocked(o2, "storage_write_unavailable"))]
              /\ UNCHANGED fate
        /\ UNCHANGED <<recorded, wire, shown>>

\* No answer, or one that says nothing for good: the attempt is counted in the
\* storage and the punch stays.
Unanswered(id) ==
    LET o == page[id] IN
    /\ o.sending # Idle
    /\ Mishap
    /\ \/ /\ Stores(id, o, o.pending)
          /\ page' = [page EXCEPT ![id] =
                          FlushEnded(Blocked([o EXCEPT !.unreadable = {}], "retry_later"))]
       \/ \E o2 \in AfterStoreFails(o) :
             /\ StoreFails(o, o2)
             /\ page' = [page EXCEPT ![id] =
                             FlushEnded(Blocked(o2, "storage_write_unavailable"))]
    /\ wire' = IF o.sending.answer = "none" THEN wire \cup {o.sending.punch} ELSE wire
    /\ UNCHANGED <<recorded, fate, shown>>

\* 401 and 403: nothing is written.
NotAllowed(id) ==
    LET o == page[id] IN
    /\ o.sending # Idle /\ o.sending.answer = "none"
    /\ Mishap
    /\ \E reason \in {"authentication_required", "permission_blocked"} :
          page' = [page EXCEPT ![id] = FlushEnded(Blocked(o, reason))]
    /\ UNCHANGED <<disk, recorded, wire, fate, shown, current, overwritten>>

Work(id) == Open(id) \/ Flush(id) \/ Arrives(id) \/ Answered(id)

NextQueue ==
    \/ \E id \in Pages :
          \/ Work(id)
          \/ Unanswered(id) \/ NotAllowed(id) \/ Dispose(id) \/ Close(id)
          \/ \E p \in Punches : Press(id, p) \/ Enqueue(id, p) \/ EnqueueUnread(id, p)
    \/ \E p \in Punches : EnqueueLate(p) \/ ArrivesLate(p)

\* Pages are opened again, retried (the page offers it for as long as punches wait)
\* and answered; what goes wrong is bounded by MaxMishaps.
Fairness == WF_queueVars(\E id \in Pages : Work(id))

QueueSpec == InitQueue /\ [][NextQueue]_queueVars /\ Fairness
-----------------------------------------------------------------------------
Stored == IF disk.queue \in Garbage THEN {} ELSE Range(disk.queue)

Accounted(p) == p \in Stored \/ p \in recorded \/ fate[p] \in {"rejected", "discarded"}

\* A punch that was shown as waiting stays in the storage until the server has
\* recorded it or rejected it for good, whichever of reads, writes and requests fail
\* and whichever pages are left or reloaded: the one thing that loses it is another
\* page writing what it holds over what it never read.
ShownIsKept == \A p \in ToSet(shown) : Accounted(p) \/ p \in overwritten

\* Content the queue could not parse is never overwritten before it is archived,
\* also when the archive itself cannot be written or the page is left in between.
NothingUnreadIsLost ==
    [][\A g \in Garbage : disk.queue = g \/ g \in disk.archive =>
                             disk'.queue = g \/ g \in disk'.archive]_queueVars

\* Every punch that was shown is in the end recorded or rejected, however it failed
\* before, when pages keep being opened and the failures end.
ShownIsAnswered ==
    \A p \in Punches :
        fate[p] = "shown" ~> \/ p \in recorded \cup overwritten
                             \/ fate[p] \in {"rejected", "discarded"}
=============================================================================
