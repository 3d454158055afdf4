--------------------------- MODULE WorkListSearch ---------------------------
(***************************************************************************)
(* The search behind the work item list (routes/work-items/controller.js): *)
(* how a query string is read into filters, which of them are defaults     *)
(* nobody chose, what is asked of the backend, and which query the page's  *)
(* own links carry. Everything here is a pure operator; WorkList is the    *)
(* page in a session.                                                      *)
(*                                                                         *)
(* A query is a record with a field for each parameter the route reads:    *)
(* the ticked boxes by group, and the single-valued ones. A value outside  *)
(* its options stands for any unknown text.                                *)
(***************************************************************************)
EXTENDS Naturals

CONSTANTS
    Users,        \* the identities that sign in; all are officers too
    NationRoles,  \* the nations of each user's roles
    Nobody,       \* no officer
    NoText        \* an empty search box

ASSUME NationRolesAssumption ==
    NationRoles \in
        [Users -> SUBSET {"England", "Scotland", "Wales", "NorthernIreland"}]

ASSUME NobodyAssumption == Nobody \notin Users

-----------------------------------------------------------------------------
(* The options of the filter form.                                         *)

ReAccreditation == "re-accreditation"

StatusOptions ==
    {"submitted", "duly-made", "updated", "awaiting-decision", "queried",
     "approved-pending-contact", "approved", "rejected", "withdrawn"}

Options ==
    [typeId |-> {ReAccreditation, "exporter"},
     applicationType |->
        {ReAccreditation, "accreditation", "registration-application",
         "annual-fee-payment"},
     status |-> StatusOptions,
     nation |-> {"England", "Scotland", "Wales", "NorthernIreland"},
     material |->
        {"aluminium", "fibre", "glass-other", "glass-remelt", "paper",
         "plastic", "steel", "wood"}]

Groups == DOMAIN Options

Sorts == {"due-date", "organisation", "status"}

Modes == {"mine", "unassigned", "user"}

\* Faulty variant of StateIdsOf, used by no specification: the option filters
\* on the state it is named after.
OwnStateIdsOf(option) == {option}

StateIdsOf(option) ==
    CASE option = "duly-made" -> {"duly-made", "assessment-started"}
      [] option = "updated" -> {"assessment-in-progress", "updated"}
      [] option = "rejected" -> {"rejected", "rejected-pending-contact"}
      [] OTHER -> {option}

ToBackendMaterial(option) ==
    IF option \in {"glass-remelt", "glass-other"} THEN "glass" ELSE option

ToBackendTypeId(option) ==
    IF option = "exporter" THEN ReAccreditation ELSE option

-----------------------------------------------------------------------------
(* Reading a query. `Bare' is the landing with no parameter the route      *)
(* knows, and also what a session that saved nothing has saved.            *)

Bare ==
    [ticked |-> [g \in Groups |-> {}], sort |-> "absent", mode |-> "absent",
     officer |-> Nobody, organisation |-> NoText, search |-> NoText,
     archived |-> FALSE, applied |-> FALSE, page |-> 0]

HasFilterParams(q) == q # Bare

\* Faulty variant of ResolveNations, used by no specification: an emptied
\* selection falls through to the role's nation.
EagerResolveNations(q, u) ==
    LET chosen == q.ticked.nation \cap Options.nation IN
    IF chosen = {} /\ \E n \in Options.nation : NationRoles[u] = {n}
      THEN NationRoles[u]
      ELSE chosen

ResolveNations(q, u) ==
    LET chosen == q.ticked.nation \cap Options.nation
        roleIsOne == \E n \in Options.nation : NationRoles[u] = {n}
    IN  IF chosen = {} /\ ~q.applied /\ roleIsOne THEN NationRoles[u] ELSE chosen

\* Faulty variant of ResolveSort, used by no specification: an unknown sort
\* passes for a chosen one.
RawResolveSort(q) == IF q.sort = "absent" THEN "due-date" ELSE q.sort

ResolveSort(q) ==
    CASE q.sort \in Sorts -> q.sort
      [] q.sort = "absent" /\ ~q.applied -> "due-date"
      [] OTHER -> "none"

ResolveAssigneeMode(q) ==
    CASE q.mode \in Modes -> q.mode
      [] q.mode = "absent" /\ ~q.applied -> "mine"
      [] OTHER -> "any"

ReadFilters(q, u) ==
    [ticked |-> [g \in Groups |->
        IF g = "nation" THEN ResolveNations(q, u) ELSE q.ticked[g] \cap Options[g]],
     sort |-> ResolveSort(q),
     sortExplicit |-> q.sort \in Sorts,
     mode |-> ResolveAssigneeMode(q),
     modeExplicit |-> q.mode \in Modes,
     officer |-> q.officer,
     organisation |-> q.organisation,
     search |-> q.search,
     archived |-> q.archived,
     applied |-> q.applied,
     page |-> IF q.page >= 1 THEN q.page ELSE 1]

-----------------------------------------------------------------------------
(* What the backend is asked, and (external) which items it then lists.    *)

\* Both applicant types ticked, or neither, is no narrowing at all.
WasteProcessingTypes(f) ==
    CASE f.ticked.typeId = {"exporter"} -> {"Exporter"}
      [] f.ticked.typeId = {ReAccreditation} -> {"Reprocessor"}
      [] OTHER -> {}

BackendAssignee(f, u) ==
    CASE f.mode = "mine" -> u
      [] f.mode = "user" -> f.officer
      [] OTHER -> Nobody

BackendQuery(f, u) ==
    [typeIds |-> {ToBackendTypeId(o) : o \in f.ticked.typeId}
                    \cup f.ticked.applicationType,
     wasteProcessingTypes |-> WasteProcessingTypes(f),
     stateIds |-> UNION {StateIdsOf(o) : o \in f.ticked.status},
     nations |-> f.ticked.nation,
     materials |-> {ToBackendMaterial(o) : o \in f.ticked.material},
     sort |-> f.sort,
     organisation |-> f.organisation,
     search |-> f.search,
     assigneeId |-> BackendAssignee(f, u),
     unassigned |-> f.mode = "unassigned",
     includeArchived |-> f.archived,
     page |-> f.page]

\* An empty list of values constrains nothing; the lists are ANDed.
OneOf(values, value) == values = {} \/ value \in values

Matches(query, item) ==
    /\ OneOf(query.typeIds, item.typeId)
    /\ OneOf(query.wasteProcessingTypes,
             IF item.exporter THEN "Exporter" ELSE "Reprocessor")
    /\ OneOf(query.stateIds, item.stateId)
    /\ OneOf(query.nations, item.nation)
    /\ OneOf(query.materials, item.material)
    /\ query.assigneeId # Nobody => item.assignedTo = query.assigneeId
    /\ query.unassigned => item.assignedTo = Nobody
    /\ item.archived => query.includeArchived

-----------------------------------------------------------------------------
(* The links of a page that was drawn with filters f: the query each of    *)
(* them carries. A value nobody chose, the default sort or "mine", is left *)
(* out; a nation is carried, default or not.                               *)

\* Faulty variant of Href, used by no specification: the marker of a form
\* submission is lost.
UnmarkedHref(f) ==
    [Bare EXCEPT
        !.ticked = f.ticked, !.organisation = f.organisation,
        !.search = f.search, !.archived = f.archived,
        !.sort = IF f.sortExplicit THEN f.sort ELSE "absent",
        !.mode = IF f.modeExplicit THEN f.mode ELSE "absent",
        !.officer = IF f.mode = "user" THEN f.officer ELSE Nobody,
        !.page = IF f.page > 1 THEN f.page ELSE 0]

Href(f) ==
    [ticked |-> f.ticked,
     sort |-> IF f.sortExplicit THEN f.sort ELSE "absent",
     mode |-> IF f.modeExplicit THEN f.mode ELSE "absent",
     officer |-> IF f.mode = "user" THEN f.officer ELSE Nobody,
     organisation |-> f.organisation,
     search |-> f.search,
     archived |-> f.archived,
     applied |-> f.applied,
     page |-> IF f.page > 1 THEN f.page ELSE 0]

PageHref(f, n) == Href([f EXCEPT !.page = n])

\* The removable tags of a page, each a key with a value. The free-text search
\* of a bookmark has none, nor has "Specific officer" with no officer.
Chips(f) ==
    (UNION {{<<g, v>> : v \in f.ticked[g]} : g \in Groups})
        \cup (IF f.modeExplicit /\ (f.mode = "user" => f.officer # Nobody)
                THEN {<<"assignment", "">>} ELSE {})
        \cup (IF f.organisation # NoText THEN {<<"organisation", "">>} ELSE {})
        \cup (IF f.sortExplicit THEN {<<"sort", "">>} ELSE {})
        \cup (IF f.archived THEN {<<"archived", "">>} ELSE {})

WithoutFilter(f, chip) ==
    LET next == [f EXCEPT !.page = 1, !.applied = TRUE] IN
    CASE chip[1] = "assignment" ->
            [next EXCEPT !.mode = "any", !.modeExplicit = FALSE, !.officer = Nobody]
      [] chip[1] = "organisation" -> [next EXCEPT !.organisation = NoText]
      [] chip[1] = "sort" -> [next EXCEPT !.sort = "none", !.sortExplicit = FALSE]
      [] chip[1] = "archived" -> [next EXCEPT !.archived = FALSE]
      [] OTHER ->
            [next EXCEPT !.ticked = [g \in Groups |->
                IF g = chip[1] THEN f.ticked[g] \ {chip[2]} ELSE f.ticked[g]]]

-----------------------------------------------------------------------------
(* The meaning of a tick, as a reader takes it: from the option's own text *)
(* and from what the card of an item shows.                                *)

StatusText(option) ==
    CASE option = "submitted" -> "Not started"
      [] option = "duly-made" -> "Duly made"
      [] option = "updated" -> "Updated"
      [] option = "awaiting-decision" -> "Awaiting decision"
      [] option = "queried" -> "Queried"
      [] option = "approved-pending-contact" -> "Approved"
      [] option = "approved" -> "Granted"
      [] option = "rejected" -> "Refused"
      [] option = "withdrawn" -> "Withdrawn"

DisplayName(stateId) ==
    CASE stateId = "submitted" -> "Not started"
      [] stateId \in {"duly-made", "assessment-started"} -> "Duly made"
      [] stateId \in {"assessment-in-progress", "updated"} -> "Updated"
      [] stateId = "awaiting-decision" -> "Awaiting decision"
      [] stateId = "queried" -> "Queried"
      [] stateId = "approved-pending-contact" -> "Approved"
      [] stateId = "approved" -> "Granted"
      [] stateId \in {"rejected-pending-contact", "rejected"} -> "Refused"
      [] stateId = "withdrawn" -> "Withdrawn"
      [] OTHER -> stateId

Card(item) ==
    [status |-> DisplayName(item.stateId),
     applicant |-> IF item.exporter THEN "Exporter" ELSE "Reprocessor",
     material |-> item.material,
     assignee |-> item.assignedTo]

ApplicantText(option) ==
    IF option = "exporter" THEN "Exporter" ELSE "Reprocessor"

\* The item is one of those the ticked boxes and the chosen radio ask for:
\* any of the boxes of a group, in every group that has one. The form itself
\* cannot tell the two kinds of glass apart, and an applicant type admits the
\* only type of item there is whatever the application type beside it.
AsTicked(f, u, item) ==
    LET card == Card(item) IN
    /\ OneOf({StatusText(o) : o \in f.ticked.status}, card.status)
    /\ OneOf({ApplicantText(o) : o \in f.ticked.typeId}, card.applicant)
    /\ OneOf(f.ticked.nation, item.nation)
    /\ OneOf({ToBackendMaterial(o) : o \in f.ticked.material}, card.material)
    /\ f.mode = "mine" => card.assignee = u
    /\ f.mode = "unassigned" => card.assignee = Nobody
    /\ (f.mode = "user" /\ f.officer # Nobody) => card.assignee = f.officer
    /\ f.ticked.typeId = {} => OneOf(f.ticked.applicationType, item.typeId)
    /\ item.archived => f.archived
=============================================================================
