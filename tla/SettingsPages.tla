----------------------------- MODULE SettingsPages -----------------------------
(***************************************************************************)
(* The settings console of the browser: packages/web/src/admin.  One       *)
(* person looks at one section at a time; each is a list, most with a form *)
(* below it, built from SettingsSection and useLoadable.                   *)
(*                                                                         *)
(* Lists are read and forms are sent by requests of their own, answered in *)
(* any order, and lists are read again after each save.  A list that was   *)
(* asked for is shown when its answer arrives, whatever was chosen or      *)
(* answered since.  Fields are names; of their contents it matters whether *)
(* all that must be filled in is, and which filling it is.  Rows are told  *)
(* apart by the choice (an employee, a period) whose list they belong to.  *)
(* What the buttons above a list do elsewhere (assigning cycles,           *)
(* generating schedules, granting in bulk, the export) and what fills the  *)
(* selections is left out, and so is the route of a request type that is   *)
(* read when its row is taken up for editing.                              *)
(***************************************************************************)
EXTENDS Integers, FiniteSets, Sequences, SequencesExt

CONSTANTS Menu,        \* the modules and sections of the menu: Modules of SettingsSections
          Sections,    \* what each section reads and writes: its SectionOf
          Links,       \* the addresses within the console: its Addresses
          Choosables,  \* what may be chosen above a list
          HeldOffered, \* the sets of permissions a person may have
          MaxFillings, \* how often a form is filled in, a bound
          MaxWrites,   \* how many writes are sent, a bound
          MaxLoads,    \* how often a list is read, a bound
          Nothing      \* no choice, no section

VARIABLES held,     \* permissions
          route,    \* the module and the section in the hash of the address
          choice,   \* the state above the list: employeeId, period, from and to
          form,     \* the fields still empty, the number of the filling, and
                    \* whether it was taken from a row
          list,     \* Loadable: what is shown, for which choice, read by which load
          loads,    \* the calls of load() that were not answered yet
          writes,   \* submits, actions of rows and imports not answered yet
          pending,  \* of SettingsSection: "no", "saving" or "reloading"
          stored,   \* what the server wrote for this section since it was opened
          reported, \* what of it the page was told of
          lost,     \* the fillings whose saving was not answered as it went
          tally     \* how many loads, writes and fillings there were

consoleVars == <<held, route, choice, form, list, loads, writes, pending, stored, reported, lost,
                 tally>>

-----------------------------------------------------------------------------
(* AdminConsole.tsx *)

Visible(permissions) ==
  LET seen(m) == [m EXCEPT !.sections =
                    SelectSeq(@, LAMBDA s : Sections[s].reads \in permissions)]
  IN SelectSeq([i \in DOMAIN Menu |-> seen(Menu[i])], LAMBDA m : m.sections # <<>>)

\* What the address names, or else the first of what may be seen.
Active(permissions, address) ==
  LET modules == Visible(permissions)
      named == SelectSeq(modules, LAMBDA m : m.key = address[1])
      chosen == IF named # <<>> THEN named[1] ELSE modules[1]
  IN IF modules = <<>> THEN Nothing
     ELSE IF address[2] \in Range(chosen.sections) THEN address[2] ELSE chosen.sections[1]

\* Where each address leads whom.
Leads == [permissions \in HeldOffered |-> [address \in Links |-> Active(permissions, address)]]

Shown == Leads[held][route]
Here == Sections[Shown]

\* The address leads to a section or, for want of permissions, to none; and a form that a save
\* leaves as it was is sent again in vain.
ASSUME SectionsAssumption ==
  /\ \A permissions \in HeldOffered, address \in Links :
       Leads[permissions][address] \in DOMAIN Sections \cup {Nothing}
  /\ Nothing \notin DOMAIN Sections
  /\ \A s \in DOMAIN Sections : Sections[s].form.once \/ Sections[s].form.cleared # {}

-----------------------------------------------------------------------------
(* A section that is opened starts anew; what is under way for the one     *)
(* before reaches no page any more.                                        *)

Loading(n, c, by) == [n |-> n, of |-> c, by |-> by, read |-> FALSE, sees |-> {}]

Blank(f) == [empty |-> f.required, filling |-> 0, row |-> FALSE]

Choosable(section) ==
  CASE section.chosen = "nothing"  -> {Nothing}
    [] section.chosen = "preset"   -> Choosables
    [] section.chosen = "required" -> {Nothing} \cup Choosables

Opened(section) ==
  /\ choice' \in IF section.chosen = "preset" THEN Choosables ELSE {Nothing}
  /\ form' = Blank(section.form)
  /\ list' = [status |-> "loading", of |-> Nothing, by |-> "choice", n |-> 0, rows |-> {}]
  /\ loads' = {Loading(1, choice', "choice")}
  /\ writes' = {} /\ pending' = "no" /\ stored' = {} /\ reported' = {} /\ lost' = {}
  /\ tally' = [loads |-> 1, writes |-> 0, fillings |-> 0]

InitConsole ==
  /\ held \in HeldOffered /\ route = <<"", "">>
  /\ choice = Nothing /\ form = [empty |-> {}, filling |-> 0, row |-> FALSE]
  /\ list = [status |-> "closed", of |-> Nothing, by |-> "choice", n |-> 0, rows |-> {}]
  /\ loads = {} /\ writes = {} /\ pending = "no" /\ stored = {} /\ reported = {} /\ lost = {}
  /\ tally = [loads |-> 0, writes |-> 0, fillings |-> 0]

\* A link, an arrow key on the tabs, or the address; one that leads to the same section
\* leaves it as it is.
Navigate(address) ==
  LET section == Leads[held][address]
  IN /\ section # Nothing
     /\ list.status = "closed" \/ section # Shown
     /\ route' = address /\ UNCHANGED held
     /\ Opened(Sections[section])

-----------------------------------------------------------------------------
(* useLoadable: load() depends on the choice, and changes when it does.    *)

BeginLoad(c, by) ==
  /\ tally.loads < MaxLoads
  /\ loads' = loads \cup {Loading(tally.loads + 1, c, by)}
  /\ tally' = [tally EXCEPT !.loads = @ + 1]

Choose(c) ==
  /\ list.status \notin {"closed", "forbidden"}
  /\ c \in Choosable(Here) \ {choice, Nothing}
  /\ choice' = c /\ BeginLoad(c, "choice")
  /\ UNCHANGED <<held, route, form, list, writes, pending, stored, reported, lost>>

\* The server reads the rows of the choice.
ReadRows(l) ==
  /\ ~l.read
  /\ loads' = (loads \ {l})
       \cup {[l EXCEPT !.read = TRUE, !.sees = {row \in stored : row.of = l.of}]}
  /\ UNCHANGED <<held, route, choice, form, list, writes, pending, stored, reported, lost, tally>>

\* A save awaits the list that it reads again.
Awaited(l) == pending = "reloading" /\ l.by = "submit"

EndLoad(l, status) ==
  /\ list' = [status |-> status, of |-> l.of, by |-> l.by, n |-> l.n,
              rows |-> IF status = "ready" THEN l.sees ELSE {}]
  /\ loads' = loads \ {l}
  /\ pending' = IF Awaited(l) THEN "no" ELSE pending
  /\ UNCHANGED <<held, route, choice, form, writes, stored, reported, lost, tally>>

Loaded(l) == l.read /\ EndLoad(l, "ready")

\* Nothing is asked for until something required was chosen.
LoadFailed(l) ==
  /\ l.of # Nothing \/ Here.chosen = "nothing"
  /\ \E status \in {"failed", "forbidden"} : EndLoad(l, status)

-----------------------------------------------------------------------------
(* The form, the rows and the import *)

Writable == list.status \notin {"closed", "forbidden"} /\ Here.writes \in held

RowsShown == list.status = "ready" /\ (list.of # Nothing \/ Here.chosen = "nothing")

Fill ==
  /\ Writable /\ Here.form.saves # "nothing"
  /\ Here.form.saves = "edited row" => form.row
  /\ tally.fillings < MaxFillings
  /\ form' = [form EXCEPT !.empty = {}, !.filling = tally.fillings + 1]
  /\ tally' = [tally EXCEPT !.fillings = @ + 1]
  /\ UNCHANGED <<held, route, choice, list, loads, writes, pending, stored, reported, lost>>

\* onCopy: the inputs of the form become those of the row.
Copy ==
  /\ Writable /\ RowsShown /\ Here.form.copies
  /\ tally.fillings < MaxFillings
  /\ form' = [empty |-> Here.form.blanked, filling |-> tally.fillings + 1, row |-> TRUE]
  /\ IF Here.form.moves /\ choice # list.of
     THEN /\ choice' = list.of /\ tally.loads < MaxLoads
          /\ loads' = loads \cup {Loading(tally.loads + 1, list.of, "choice")}
          /\ tally' = [tally EXCEPT !.fillings = @ + 1, !.loads = @ + 1]
     ELSE tally' = [tally EXCEPT !.fillings = @ + 1] /\ UNCHANGED <<choice, loads>>
  /\ UNCHANGED <<held, route, list, writes, pending, stored, reported, lost>>

\* What is sent, with the choice as it is: that of the list to be read again as well.
Write(kind, filling, of) ==
  [n |-> tally.writes + 1, kind |-> kind, filling |-> filling, of |-> of, again |-> choice,
   replaces |-> kind = "submit" /\ (Here.form.saves # "new row"
                                    \/ (Here.form.calls = 2 /\ form.row)),
   at |-> "sent"]

Sends(w) ==
  /\ tally.writes < MaxWrites
  /\ writes' = writes \cup {w}
  /\ tally' = [tally EXCEPT !.writes = @ + 1]

\* Mutant: the button does not mind that the form is being saved.
MaySubmitAgain == Writable

\* The button of a form that is being saved is disabled.
MaySubmit == Writable /\ pending = "no"

\* onSubmit: the browser asks for what is required, and nothing is sent without it.
Submit ==
  /\ MaySubmit /\ form.empty = {}
  /\ Here.form.saves # "nothing" /\ (Here.form.saves = "edited row" => form.row)
  /\ Here.chosen = "required" => choice # Nothing
  /\ Sends(Write("submit", form.filling, choice)) /\ pending' = "saving"
  /\ UNCHANGED <<held, route, choice, form, list, loads, stored, reported, lost>>

\* A button of a row; it is not disabled meanwhile.
ActOnRow ==
  /\ RowsShown /\ Here.acts \in held
  /\ Sends(Write("act", 0, IF Here.actsOn = "choice" THEN choice ELSE list.of))
  /\ UNCHANGED <<held, route, choice, form, list, loads, pending, stored, reported, lost>>

\* onImport; what a file holds belongs to any choice.
Import ==
  /\ Writable /\ Here.imports
  /\ Sends(Write("import", 0, choice))
  /\ UNCHANGED <<held, route, choice, form, list, loads, pending, stored, reported, lost>>

\* The row that a create answers with (organization/repository.ts and its like).
RowOf(w) == [n |-> w.n, filling |-> w.filling, of |-> w.of]

\* The rows that the unique keys of the tables tell no difference to.
Same(w) == {row \in stored : w.kind = "submit" /\ row.filling = w.filling /\ row.n # w.n}

\* The server creates or updates; a create is refused if a unique key is violated (createType
\* and updateType of request/service.ts, and their like for the other sections).
Store(w) ==
  /\ w.at = "sent"
  /\ w.kind = "submit" /\ Here.form.once /\ ~w.replaces => Same(w) = {}
  /\ stored' = (IF w.replaces THEN stored \ Same(w) ELSE stored) \cup {RowOf(w)}
  /\ writes' = (writes \ {w}) \cup
       {[w EXCEPT !.at = IF w.kind = "submit" /\ Here.form.calls = 2 THEN "half" ELSE "stored"]}
  /\ UNCHANGED <<held, route, choice, form, list, loads, pending, reported, lost, tally>>

\* The second request of two: replaceRoute, for the type that the first one wrote.
StoreRest(w) ==
  /\ w.at = "half"
  /\ writes' = (writes \ {w}) \cup {[w EXCEPT !.at = "stored"]}
  /\ UNCHANGED <<held, route, choice, form, list, loads, pending, stored, reported, lost, tally>>

\* An answer that says so: the form is cleared and the list of the choice that was sent along
\* is read again.
Saved(w) ==
  /\ w.at = "stored"
  /\ reported' = reported \cup {RowOf(w)}
  /\ writes' = writes \ {w}
  /\ IF w.kind = "submit"
     THEN /\ pending' = "reloading"
          /\ form' = [form EXCEPT !.empty = @ \cup Here.form.cleared,
                                  !.row = Here.form.saves = "edited row" /\ @]
     ELSE UNCHANGED <<pending, form>>
  /\ BeginLoad(w.again, w.kind)
  /\ UNCHANGED <<held, route, choice, list, stored, lost>>

\* A refusal, an error or no answer at all: nothing is read again, and the form stays.
NotSaved(w) ==
  /\ writes' = writes \ {w}
  /\ lost' = IF w.at = "sent" THEN lost ELSE lost \cup {w.filling}
  /\ pending' = IF w.kind = "submit" THEN "no" ELSE pending
  /\ UNCHANGED <<held, route, choice, form, list, loads, stored, reported, tally>>

NextConsole ==
  \/ \E address \in Links : Navigate(address)
  \/ \E c \in Choosables : Choose(c)
  \/ \E l \in loads : ReadRows(l) \/ Loaded(l) \/ LoadFailed(l)
  \/ Fill \/ Copy \/ Submit \/ ActOnRow \/ Import
  \/ \E w \in writes : Store(w) \/ StoreRest(w) \/ Saved(w) \/ NotSaved(w)

ConsoleSpec == InitConsole /\ [][NextConsole]_consoleVars

-----------------------------------------------------------------------------
\* When the page rests and the load that was begun last is the one it shows, the list holds
\* all that the page reported as saved for the choice of that list.  The choice is the one
\* made last, unless that load followed a save of another choice.
SavedIsShown ==
  loads = {} /\ writes = {} /\ list.status = "ready" /\ list.n = tally.loads
    => /\ {row \in reported \cap stored : row.of = list.of} \subseteq list.rows
       /\ list.of = choice \/ list.by # "choice"

\* What was filled in once is written once, unless it was sent again because the answer was
\* lost and nothing in the tables tells the two apart.
FilledOnceWrittenOnce ==
  \A row, other \in stored :
    row.filling = other.filling /\ row.filling # 0 /\ row # other => row.filling \in lost

\* The two together: what the console shows is what was saved, and what was filled in once
\* is saved once.
SavedOnceAndShown == SavedIsShown /\ FilledOnceWrittenOnce
=============================================================================
