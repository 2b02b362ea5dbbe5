------------------------------ MODULE Anomalies ------------------------------
(***************************************************************************)
(* What is listed for a review of the records: packages/api/src/audit/     *)
(* anomaly-{service,repository}.ts and packages/domain/src/audit/          *)
(* anomaly.ts.  The repository collects facts by SQL; what counts of a     *)
(* day is said there once more, beside resolveEffectiveEvents.             *)
(*                                                                         *)
(* The anomalies of devices are left out, as they copy single receipts,    *)
(* and the changes after an approval, as decided_at is an instant of the   *)
(* server's clock that is compared with one of the database's.             *)
(***************************************************************************)
EXTENDS AttendanceMonth

CONSTANTS
  DuplicateWindow,     \* duplicateWindowMinutes, in instants
  CorrectionThreshold  \* correctionThreshold

ASSUME AnomalyAssumption == DuplicateWindow \in Nat /\ CorrectionThreshold \in Nat

\* Mutant: NOT EXISTS looks at the adjustments only.
NotAdjusted(d) ==
  {e \in Range(history[d]) :
     /\ e.action # "void"
     /\ ~\E x \in Range(history[d]) : x.action = "adjust" /\ x.corrects = e.id}

\* listEffectiveEvents: neither a void nor pointed at by any correction.
EffectiveEvents(d) ==
  {e \in Range(history[d]) :
     /\ e.action # "void" /\ ~\E x \in Range(history[d]) : x.corrects = e.id}

\* listCorrectionCounts
Corrections(d) == {e \in Range(history[d]) : e.action # "punch"}

\* isExcessiveCorrections
IsExcessive(count) == count > CorrectionThreshold

\* findDuplicateEvents: neighbours of one type; those of one instant may come in any order.
Neighbours(events, e, f) ==
  /\ e # f /\ e.at <= f.at
  /\ ~\E x \in events : e.at < x.at /\ x.at < f.at

FindDuplicateEvents(events) ==
  {pair \in events \X events :
     /\ Neighbours(events, pair[1], pair[2]) /\ pair[1].type = pair[2].type
     /\ pair[2].at - pair[1].at <= DuplicateWindow}

\* list: what is found of the records of each day.
Listed ==
  [d \in Days |->
     [duplicates |-> FindDuplicateEvents(EffectiveEvents(d)),
      excessive  |-> IsExcessive(Cardinality(Corrections(d)))]]

-----------------------------------------------------------------------------
\* A record was corrected twice, or what voided it was corrected: the SQL then lists what the
\* first correction said although a later one replaced it ("修正で置き換えられた元の打刻は除く",
\* anomaly-repository.ts:170).
CorrectedAgain(d) ==
  \E e, f, x \in Range(history[d]) :
    /\ e.action \in {"adjust", "void"} /\ f.action \in {"adjust", "void"}
    /\ e.corrects = x.id /\ f.corrects = x.id
    /\ e # f \/ x.action = "void"

\* How often the records that count, in either reading, say that something happened.
Listings(d, type, at) == Cardinality({e \in EffectiveEvents(d) : e.type = type /\ e.at = at})

Countings(d, type, at) ==
  LET counted == Effective(history[d])
  IN  Cardinality({i \in DOMAIN counted : counted[i].type = type /\ counted[i].at = at})

ReadingsAgree(d) ==
  \A type \in Types, at \in Instants : Listings(d, type, at) = Countings(d, type, at)

\* What counts happened before the last record of the day, or with it.
Latest(d, e) == e = Last(history[d]) /\ \A x \in EffectiveEvents(d) : x.at <= e.at

\* Something else happened between the two.
Separated(d, e, f) ==
  \E x \in EffectiveEvents(d) : x.type # e.type /\ e.at <= x.at /\ x.at <= f.at

ListedWithNone(d, e) ==
  \A pair \in Listed[d].duplicates :
    e \in {pair[1], pair[2]} => Separated(d, pair[1], pair[2])

(***************************************************************************)
(* The review looks at the records that count: whatever is recorded, in    *)
(* whatever order parallel corrections take effect, the two readings of    *)
(* what counts are the same, unless a record was corrected twice or a void *)
(* was corrected.  And punches are not made twice ("連続した同じ種別を弾く",     *)
(* anomaly.ts:77): one that is recorded behind all there is, and happened  *)
(* no earlier, is not listed with another of its type unless something     *)
(* else happened between them.  A punch that waited for the lock is        *)
(* recorded ahead of later ones, and may be listed without any correction. *)
(***************************************************************************)
ReviewSeesWhatCounts ==
  [][\A d \in Days : history'[d] # history[d] /\ ~CorrectedAgain(d)' =>
       /\ ReadingsAgree(d)'
       /\ \A e \in Added(d) : e.action = "punch" /\ Latest(d, e)' => ListedWithNone(d, e)']_vars
=============================================================================
