--------------------------- MODULE WorkListProofs ---------------------------
(***************************************************************************)
(* Proofs about WorkList, for any officers, texts, forms and bookmarks.    *)
(* Filters that were read from a query are WellRead, whatever the query;   *)
(* the last search drawn is always the one the session's saved query       *)
(* stands for, and a request that will replace both carries a query and    *)
(* filters that belong together.                                           *)
(***************************************************************************)
EXTENDS WorkList, TLAPS

\* What filters read from a query are, beyond their type.
WellRead(f) ==
    /\ f \in Filters
    /\ \A g \in Groups : f.ticked[g] \subseteq Options[g]
    /\ f.sortExplicit => f.sort \in Sorts
    /\ f.modeExplicit => f.mode \in Modes

\* What the defaults of filters read for u are, where nothing was chosen.
Defaulted(f, u) ==
    /\ f.ticked["nation"] = {} /\ ~f.applied =>
         ~\E n \in Options["nation"] : NationRoles[u] = {n}
    /\ ~f.sortExplicit => f.sort \in {"due-date", "none"}
    /\ ~f.sortExplicit /\ f.applied => f.sort = "none"
    /\ ~f.modeExplicit => f.mode \in {"mine", "any"}
    /\ ~f.modeExplicit /\ f.applied => f.mode = "any"

SavedIsLastSearch == lastSearch = BackendQuery(ReadFilters(saved, user), user)

HeldBelongTogether ==
    \A t \in Tabs : Waits(t) =>
        /\ WellRead(tab[t].filters)
        /\ Defaulted(tab[t].filters, user)
        /\ tab[t].saving => tab[t].filters = ReadFilters(tab[t].saved, user)

DrawnWellRead ==
    \A t \in Tabs : Shows(t) =>
        WellRead(tab[t].filters) /\ Defaulted(tab[t].filters, tab[t].user)

IInv == TypeOK /\ SavedIsLastSearch /\ HeldBelongTogether /\ DrawnWellRead

-----------------------------------------------------------------------------
(* The operators on queries and filters.                                   *)

\* The groups of boxes, and their options.
LEMMA GroupsAre ==
    /\ Groups = {"typeId", "applicationType", "status", "nation", "material"}
    /\ Options.nation = {"England", "Scotland", "Wales", "NorthernIreland"}
    /\ Options["nation"] = Options.nation
  BY DEF Groups, Options

\* Ticks are of their options, when each group's are.
LEMMA TicksType ==
    ASSUME NEW ticked, ticked = [g \in Groups |-> ticked[g]],
           \A g \in Groups : ticked[g] \subseteq Options[g]
    PROVE  ticked \in Ticks
<1>1. \A g \in Groups : ticked[g] \in SUBSET UNION {Options[h] : h \in Groups}
  OBVIOUS
<1> QED BY <1>1 DEF Ticks

\* The bare landing is a query.
LEMMA BareType == Bare \in Queries
<1>1. Bare.ticked \in Ticks
  BY DEF Bare, Ticks
<1>2. 0 \in 0..MaxPages
  BY MaxPagesAssumption
<1> QED
  BY <1>1, <1>2 DEF Bare, Queries, SearchTexts, Officers

\* The nations read are nations, whether they were chosen or are the role's.
LEMMA NationsRead ==
    ASSUME NEW q \in Queries, NEW u \in Users
    PROVE  /\ ResolveNations(q, u) \subseteq Options.nation
           /\ q.applied => ResolveNations(q, u) = q.ticked.nation \cap Options.nation
<1>1. NationRoles[u] \subseteq Options.nation
  BY NationRolesAssumption, GroupsAre
<1> QED BY <1>1 DEF ResolveNations

\* Filters read from a query are well read.
LEMMA ReadWellRead ==
    ASSUME NEW q \in Queries, NEW u \in Users
    PROVE  WellRead(ReadFilters(q, u))
<1> DEFINE f == ReadFilters(q, u)
<1>1. \A g \in Groups : f.ticked[g] \subseteq Options[g]
  BY NationsRead, GroupsAre DEF ReadFilters
<1>2. f.ticked = [g \in Groups |-> f.ticked[g]]
  BY DEF ReadFilters
<1>3. f.ticked \in Ticks
  BY <1>1, <1>2, TicksType
<1>4. f.sort \in Sorts \cup {"none"} /\ (f.sortExplicit => f.sort \in Sorts)
  BY DEF ReadFilters, ResolveSort, Sorts
<1>5. f.mode \in Modes \cup {"any"} /\ (f.modeExplicit => f.mode \in Modes)
  BY DEF ReadFilters, ResolveAssigneeMode, Modes
<1>6. f.page \in 1..MaxPages
  BY MaxPagesAssumption DEF ReadFilters, Queries
<1>7. /\ f.sortExplicit \in BOOLEAN /\ f.modeExplicit \in BOOLEAN
      /\ f.officer \in Officers /\ f.organisation \in SearchTexts
      /\ f.search \in SearchTexts /\ f.archived \in BOOLEAN /\ f.applied \in BOOLEAN
  BY DEF ReadFilters, Queries
<1>8. f = [ticked |-> f.ticked, sort |-> f.sort, sortExplicit |-> f.sortExplicit,
           mode |-> f.mode, modeExplicit |-> f.modeExplicit, officer |-> f.officer,
           organisation |-> f.organisation, search |-> f.search,
           archived |-> f.archived, applied |-> f.applied, page |-> f.page]
  BY DEF ReadFilters
<1> HIDE DEF f
<1>9. f \in Filters
  BY <1>3, <1>4, <1>5, <1>6, <1>7, <1>8 DEF Filters
<1> QED BY <1>1, <1>4, <1>5, <1>9 DEF WellRead, f

\* Filters read for a user have that user's defaults.
LEMMA ReadDefaulted ==
    ASSUME NEW q \in Queries, NEW u \in Users
    PROVE  Defaulted(ReadFilters(q, u), u)
<1> DEFINE f == ReadFilters(q, u)
<1>1. f.ticked["nation"] = ResolveNations(q, u) /\ f.applied = q.applied
  BY GroupsAre DEF ReadFilters
<1>2. f.ticked["nation"] = {} /\ ~f.applied =>
        ~\E n \in Options["nation"] : NationRoles[u] = {n}
  BY <1>1, GroupsAre DEF ResolveNations
<1>3. /\ ~f.sortExplicit => f.sort \in {"due-date", "none"}
      /\ ~f.sortExplicit /\ f.applied => f.sort = "none"
  BY DEF ReadFilters, ResolveSort, Sorts
<1>4. /\ ~f.modeExplicit => f.mode \in {"mine", "any"}
      /\ ~f.modeExplicit /\ f.applied => f.mode = "any"
  BY DEF ReadFilters, ResolveAssigneeMode, Modes
<1> HIDE DEF f
<1>5. Defaulted(f, u)
  BY <1>2, <1>3, <1>4 DEF Defaulted
<1> QED BY <1>5 DEF f

\* The link of well-read filters carries a query.
LEMMA HrefType ==
    ASSUME NEW f, WellRead(f)
    PROVE  Href(f) \in Queries
<1>1. f \in Filters
  BY DEF WellRead
<1>2. (IF f.sortExplicit THEN f.sort ELSE "absent") \in Sorts \cup {"absent", "unknown"}
  BY DEF WellRead
<1>3. (IF f.modeExplicit THEN f.mode ELSE "absent") \in Modes \cup {"absent", "any"}
  BY DEF WellRead
<1>4. (IF f.page > 1 THEN f.page ELSE 0) \in 0..MaxPages
  BY <1>1, MaxPagesAssumption DEF Filters
<1>5. (IF f.mode = "user" THEN f.officer ELSE Nobody) \in Officers
  BY <1>1 DEF Filters, Officers
<1>6. /\ f.ticked \in Ticks /\ f.organisation \in SearchTexts /\ f.search \in SearchTexts
      /\ f.archived \in BOOLEAN /\ f.applied \in BOOLEAN
  BY <1>1 DEF Filters
<1> QED
  BY <1>2, <1>3, <1>4, <1>5, <1>6 DEF Href, Queries

\* What a link carries is read back: the texts, the page, the ticks of a
\* submission or of the reader's own defaults, and the choices; what was not
\* chosen becomes the default, or nothing after a submission.
LEMMA ReadBack ==
    ASSUME NEW f, WellRead(f), NEW u \in Users
    PROVE  LET g == ReadFilters(Href(f), u) IN
           /\ g.organisation = f.organisation /\ g.search = f.search
           /\ g.archived = f.archived /\ g.applied = f.applied /\ g.page = f.page
           /\ g.officer = IF f.mode = "user" THEN f.officer ELSE Nobody
           /\ f.applied \/ Defaulted(f, u) => g.ticked = f.ticked
           /\ g.sortExplicit = f.sortExplicit
           /\ f.sortExplicit => g.sort = f.sort
           /\ ~f.sortExplicit => g.sort = IF f.applied THEN "none" ELSE "due-date"
           /\ g.modeExplicit = f.modeExplicit
           /\ f.modeExplicit => g.mode = f.mode
           /\ ~f.modeExplicit => g.mode = IF f.applied THEN "any" ELSE "mine"
<1> DEFINE q == Href(f)
           g == ReadFilters(q, u)
<1>1. f \in Filters /\ q \in Queries
  BY HrefType DEF WellRead
<1>2. /\ g.organisation = f.organisation /\ g.search = f.search
      /\ g.archived = f.archived /\ g.applied = f.applied
      /\ g.officer = IF f.mode = "user" THEN f.officer ELSE Nobody
  BY DEF ReadFilters, Href
<1>3. g.page = f.page
  <2>1. f.page \in Nat /\ f.page >= 1
    BY <1>1, MaxPagesAssumption DEF Filters
  <2> QED BY <2>1 DEF ReadFilters, Href
<1>4. ASSUME f.applied \/ Defaulted(f, u) PROVE g.ticked = f.ticked
  <2>1. f.ticked = [x \in Groups |-> f.ticked[x]]
    BY <1>1 DEF Filters, Ticks
  <2>2. q.ticked = f.ticked /\ q.applied = f.applied
    BY DEF Href
  <2>3. f.ticked["nation"] \subseteq Options["nation"] /\ "nation" \in Groups
    BY GroupsAre DEF WellRead
  <2>4. q.ticked.nation \cap Options.nation = f.ticked["nation"]
    BY <2>2, <2>3, GroupsAre
  <2>5. ResolveNations(q, u) = f.ticked["nation"]
    BY <1>4, <2>2, <2>4, GroupsAre DEF ResolveNations, Defaulted
  <2>6. \A x \in Groups : g.ticked[x] = f.ticked[x]
    BY <2>2, <2>5 DEF ReadFilters, WellRead
  <2>7. g.ticked = [x \in Groups |-> g.ticked[x]]
    BY DEF ReadFilters
  <2> HIDE DEF g
  <2> QED BY <2>1, <2>6, <2>7
<1>5. /\ g.sortExplicit = f.sortExplicit
      /\ f.sortExplicit => g.sort = f.sort
      /\ ~f.sortExplicit => g.sort = IF f.applied THEN "none" ELSE "due-date"
  <2>1. f.sortExplicit \in BOOLEAN
    BY <1>1 DEF Filters
  <2> QED BY <2>1 DEF ReadFilters, Href, ResolveSort, WellRead, Sorts
<1>6. /\ g.modeExplicit = f.modeExplicit
      /\ f.modeExplicit => g.mode = f.mode
      /\ ~f.modeExplicit => g.mode = IF f.applied THEN "any" ELSE "mine"
  <2>1. f.modeExplicit \in BOOLEAN
    BY <1>1 DEF Filters
  <2> QED BY <2>1 DEF ReadFilters, Href, ResolveAssigneeMode, WellRead, Modes
<1> HIDE DEF g
<1>7. /\ g.organisation = f.organisation /\ g.search = f.search
      /\ g.archived = f.archived /\ g.applied = f.applied /\ g.page = f.page
      /\ g.officer = IF f.mode = "user" THEN f.officer ELSE Nobody
      /\ f.applied \/ Defaulted(f, u) => g.ticked = f.ticked
  BY <1>2, <1>3, <1>4
<1> QED BY <1>5, <1>6, <1>7 DEF g

\* Another page of well-read filters is well read.
LEMMA PageWellRead ==
    ASSUME NEW f, WellRead(f), NEW n \in 1..MaxPages
    PROVE  WellRead([f EXCEPT !.page = n])
  BY DEF WellRead, Filters

\* A tag of a kind of its own.
OfKind(chip, kind) == chip = <<kind, "">>

\* A tag of a ticked box.
OfBox(f, chip) == \E g \in Groups : \E v \in f.ticked[g] : chip = <<g, v>>

\* The key of such a tag is its kind.
LEMMA KeyOf ==
    ASSUME NEW chip, NEW kind, OfKind(chip, kind)
    PROVE  chip[1] = kind
  BY DEF OfKind

\* The tags are of four kinds of their own, and one for each ticked box; each
\* is there because the page is filtered on what it names.
LEMMA ChipKinds ==
    ASSUME NEW f, NEW chip \in Chips(f)
    PROVE  \/ OfKind(chip, "assignment") /\ f.modeExplicit
           \/ OfKind(chip, "organisation") /\ f.organisation # NoText
           \/ OfKind(chip, "sort") /\ f.sortExplicit
           \/ OfKind(chip, "archived") /\ f.archived
           \/ OfBox(f, chip)
<1> DEFINE ticked == UNION {{<<g, v>> : v \in f.ticked[g]} : g \in Groups}
           assigned == f.modeExplicit /\ (f.mode = "user" => f.officer # Nobody)
<1>1. CASE chip \in ticked
  <2>1. PICK g \in Groups : chip \in {<<g, v>> : v \in f.ticked[g]}
    BY <1>1
  <2>2. OfBox(f, chip)
    BY <2>1 DEF OfBox
  <2> QED BY <2>2
<1>2. CASE chip \notin ticked
  <2>1. Chips(f) = ticked
            \cup (IF assigned THEN {<<"assignment", "">>} ELSE {})
            \cup (IF f.organisation # NoText THEN {<<"organisation", "">>} ELSE {})
            \cup (IF f.sortExplicit THEN {<<"sort", "">>} ELSE {})
            \cup (IF f.archived THEN {<<"archived", "">>} ELSE {})
    BY DEF Chips
  <2> HIDE DEF ticked, assigned
  <2>2. \/ OfKind(chip, "assignment") /\ assigned
        \/ OfKind(chip, "organisation") /\ f.organisation # NoText
        \/ OfKind(chip, "sort") /\ f.sortExplicit
        \/ OfKind(chip, "archived") /\ f.archived
    BY <1>2, <2>1 DEF OfKind
  <2>3. assigned => f.modeExplicit
    BY DEF assigned
  <2> QED BY <2>2, <2>3
<1> QED BY <1>1, <1>2

\* Filters with one less are well read.
LEMMA WithoutWellRead ==
    ASSUME NEW f, WellRead(f), NEW chip
    PROVE  WellRead(WithoutFilter(f, chip))
<1> DEFINE fewer == [g \in Groups |->
              IF g = chip[1] THEN f.ticked[g] \ {chip[2]} ELSE f.ticked[g]]
           next == [f EXCEPT !.page = 1, !.applied = TRUE]
<1>1. f \in Filters /\ 1 \in 1..MaxPages
  BY MaxPagesAssumption DEF WellRead
<1>2. fewer \in Ticks /\ \A g \in Groups : fewer[g] \subseteq Options[g]
  <2>1. \A g \in Groups : fewer[g] \subseteq f.ticked[g]
    OBVIOUS
  <2>2. \A g \in Groups : fewer[g] \subseteq Options[g]
    BY <2>1 DEF WellRead
  <2>3. fewer = [g \in Groups |-> fewer[g]]
    OBVIOUS
  <2> HIDE DEF fewer
  <2> QED BY <2>2, <2>3, TicksType
<1> HIDE DEF fewer
<1>3. WellRead(next)
  BY <1>1 DEF WellRead, Filters
<1> HIDE DEF next
<1>4. Nobody \in Officers /\ NoText \in SearchTexts
  BY DEF Officers, SearchTexts
<1>5. WellRead([next EXCEPT !.mode = "any", !.modeExplicit = FALSE, !.officer = Nobody])
  BY <1>3, <1>4 DEF WellRead, Filters
<1>6. WellRead([next EXCEPT !.organisation = NoText])
  BY <1>3, <1>4 DEF WellRead, Filters
<1>7. WellRead([next EXCEPT !.sort = "none", !.sortExplicit = FALSE])
  BY <1>3 DEF WellRead, Filters
<1>8. WellRead([next EXCEPT !.archived = FALSE])
  BY <1>3 DEF WellRead, Filters
<1>9. WellRead([next EXCEPT !.ticked = fewer])
  BY <1>2, <1>3 DEF WellRead, Filters
<1>10. WithoutFilter(f, chip) \in
         {[next EXCEPT !.mode = "any", !.modeExplicit = FALSE, !.officer = Nobody],
          [next EXCEPT !.organisation = NoText],
          [next EXCEPT !.sort = "none", !.sortExplicit = FALSE],
          [next EXCEPT !.archived = FALSE],
          [next EXCEPT !.ticked = fewer]}
  BY DEF WithoutFilter, next, fewer
<1> QED BY <1>5, <1>6, <1>7, <1>8, <1>9, <1>10

-----------------------------------------------------------------------------
(* The invariant.                                                          *)

\* A request that arrives keeps the invariant, and is read from the query it
\* works from.
LEMMA ArriveKeeps ==
    ASSUME IInv, NEW t \in Tabs, NEW q \in Queries, NEW clear \in BOOLEAN,
           Arrive(t, q, clear)
    PROVE  IInv'
<1> DEFINE effective == IF clear THEN Bare
                        ELSE IF HasFilterParams(q) THEN q ELSE saved
           saving == clear \/ HasFilterParams(q)
           filters == ReadFilters(effective, user)
           req == [is |-> "waiting", filters |-> filters, saving |-> saving,
                   saved |-> effective]
<1>1. TypeOK /\ user \in Users /\ UNCHANGED <<user, saved, lastSearch>>
  BY DEF IInv, TypeOK, Arrive
<1>2. effective \in Queries
  BY BareType DEF IInv, TypeOK
<1>3. WellRead(filters) /\ filters \in Filters /\ Defaulted(filters, user)
  BY <1>1, <1>2, ReadWellRead, ReadDefaulted DEF WellRead
<1>4. saving \in BOOLEAN
  BY DEF HasFilterParams
<1>5. tab' = [tab EXCEPT ![t] = req]
  BY DEF Arrive
<1> HIDE DEF effective, saving
<1>6. req \in Requests
  BY <1>2, <1>3, <1>4 DEF Requests
<1>7. /\ req.is = "waiting" /\ req.filters = filters /\ req.saved = effective
  OBVIOUS
<1> HIDE DEF req
<1>8. tab' \in [Tabs -> {Closed} \cup Lists \cup Requests]
  BY <1>1, <1>5, <1>6 DEF TypeOK
<1>9. tab'[t] = req /\ \A r \in Tabs : r # t => tab'[r] = tab[r]
  BY <1>1, <1>5 DEF TypeOK
<1>10. TypeOK' /\ SavedIsLastSearch'
  BY <1>1, <1>8 DEF IInv, TypeOK, SavedIsLastSearch
<1>11. HeldBelongTogether'
  <2> SUFFICES ASSUME NEW r \in Tabs, Waits(r)'
               PROVE  /\ WellRead(tab'[r].filters)
                      /\ Defaulted(tab'[r].filters, user)
                      /\ tab'[r].saving => tab'[r].filters = ReadFilters(tab'[r].saved, user)
    BY <1>1 DEF HeldBelongTogether
  <2>1. CASE r = t
    BY <2>1, <1>3, <1>7, <1>9
  <2>2. CASE r # t
    BY <2>2, <1>9 DEF IInv, HeldBelongTogether, Waits
  <2> QED BY <2>1, <2>2
<1>12. DrawnWellRead'
  BY <1>7, <1>9 DEF IInv, DrawnWellRead, Shows
<1> QED BY <1>10, <1>11, <1>12 DEF IInv

\* An answer keeps it: the search it saves is the search it drew.
LEMMA AnswerKeeps ==
    ASSUME IInv, NEW t \in Tabs, NEW n \in 1..MaxPages, Answer(t, n)
    PROVE  IInv'
<1> DEFINE list == [is |-> "list", filters |-> tab[t].filters, pages |-> n, user |-> user]
<1>1. TypeOK /\ Waits(t) /\ user' = user /\ user \in Users
  BY DEF IInv, TypeOK, Answer
<1>2. /\ WellRead(tab[t].filters) /\ tab[t].filters \in Filters
      /\ Defaulted(tab[t].filters, user)
  BY <1>1 DEF IInv, HeldBelongTogether, WellRead
<1>3. tab[t] \in Requests
  BY <1>1 DEF TypeOK, Waits, Closed, Lists
<1>4. /\ list \in Lists /\ list.is = "list" /\ list.filters = tab[t].filters
      /\ list.user = user
  BY <1>1, <1>2 DEF Lists
<1>5. tab' = [tab EXCEPT ![t] = list]
  BY DEF Answer
<1> HIDE DEF list
<1>6. tab' \in [Tabs -> {Closed} \cup Lists \cup Requests]
  BY <1>1, <1>4, <1>5 DEF TypeOK
<1>7. tab'[t] = list /\ \A r \in Tabs : r # t => tab'[r] = tab[r]
  BY <1>1, <1>5 DEF TypeOK
<1>8. /\ saved' = IF tab[t].saving THEN tab[t].saved ELSE saved
      /\ lastSearch' = IF tab[t].saving THEN BackendQuery(tab[t].filters, user)
                                       ELSE lastSearch
  BY DEF Answer
<1>9. tab[t].saved \in Queries
  BY <1>3 DEF Requests
<1>10. TypeOK'
  BY <1>1, <1>6, <1>8, <1>9 DEF TypeOK
<1>11. SavedIsLastSearch'
  <2>1. CASE tab[t].saving
    <3>1. tab[t].filters = ReadFilters(tab[t].saved, user)
      BY <2>1, <1>1 DEF IInv, HeldBelongTogether
    <3> QED BY <3>1, <2>1, <1>1, <1>8 DEF SavedIsLastSearch
  <2>2. CASE ~tab[t].saving
    BY <2>2, <1>1, <1>8 DEF IInv, SavedIsLastSearch
  <2> QED BY <2>1, <2>2
<1>12. HeldBelongTogether'
  BY <1>1, <1>4, <1>7 DEF IInv, HeldBelongTogether, Waits
<1>13. DrawnWellRead'
  BY <1>2, <1>4, <1>7 DEF IInv, DrawnWellRead, Shows
<1> QED BY <1>10, <1>11, <1>12, <1>13 DEF IInv

\* A sign-in keeps it: nothing is waited for, and nothing is saved.
LEMMA SignInKeeps ==
    ASSUME IInv, NEW u \in Users, SignIn(u)
    PROVE  IInv'
<1>1. user' = u /\ saved' = Bare /\ lastSearch' = DefaultSearch(u) /\ tab' = tab
        /\ \A t \in Tabs : ~Waits(t)
  BY DEF SignIn
<1>2. TypeOK'
  BY <1>1, BareType DEF IInv, TypeOK
<1>3. SavedIsLastSearch'
  BY <1>1 DEF SavedIsLastSearch, DefaultSearch
<1>4. HeldBelongTogether' /\ DrawnWellRead'
  BY <1>1 DEF IInv, HeldBelongTogether, DrawnWellRead, Waits, Shows
<1> QED BY <1>2, <1>3, <1>4 DEF IInv

\* Every step of a tab is an arrival with a query, or an answer.
LEMMA TabSteps ==
    ASSUME IInv, NEW t \in Tabs, TabStep(t)
    PROVE  \/ \E q \in Queries : \E clear \in BOOLEAN : Arrive(t, q, clear)
           \/ \E n \in 1..MaxPages : Answer(t, n)
<1>1. Shows(t) => WellRead(tab[t].filters)
  BY DEF IInv, DrawnWellRead
<1>2. CASE Land(t)
  BY <1>2, BareType DEF Land
<1>3. CASE \E q \in Bookmarks : Follow(t, q)
  BY <1>3, QueriesAssumption DEF Follow
<1>4. CASE \E q \in Forms : SubmitForm(t, q)
  <2>1. PICK q \in Forms : SubmitForm(t, q)
    BY <1>4
  <2>2. q \in Queries /\ 0 \in 0..MaxPages /\ NoText \in SearchTexts
    BY QueriesAssumption, MaxPagesAssumption DEF SearchTexts
  <2>3. [q EXCEPT !.applied = TRUE, !.search = NoText, !.page = 0] \in Queries
    BY <2>2 DEF Queries
  <2> QED BY <2>1, <2>3 DEF SubmitForm
<1>5. CASE \E n \in 1..MaxPages : FollowPageLink(t, n)
  <2>1. PICK n \in 1..MaxPages : FollowPageLink(t, n)
    BY <1>5
  <2>2. PageHref(tab[t].filters, n) \in Queries
    BY <1>1, <2>1, PageWellRead, HrefType DEF FollowPageLink, PageHref
  <2> QED BY <2>1, <2>2 DEF FollowPageLink
<1>6. CASE Shows(t) /\ \E chip \in Chips(tab[t].filters) : RemoveChip(t, chip)
  <2>1. PICK chip : RemoveChip(t, chip)
    BY <1>6
  <2>2. Href(WithoutFilter(tab[t].filters, chip)) \in Queries
    BY <1>1, <1>6, WithoutWellRead, HrefType
  <2> QED BY <2>1, <2>2 DEF RemoveChip
<1>7. CASE ClearAll(t)
  BY <1>7, BareType DEF ClearAll
<1>8. CASE \E n \in 1..MaxPages : Answer(t, n)
  BY <1>8
<1> QED BY <1>2, <1>3, <1>4, <1>5, <1>6, <1>7, <1>8 DEF TabStep

\* The invariant holds of every reachable state.
THEOREM SearchesAreKept == Spec => []IInv
<1>1. Init => IInv
  <2> SUFFICES ASSUME Init PROVE IInv
    OBVIOUS
  <2>1. \A t \in Tabs : tab[t] = Closed /\ ~Waits(t) /\ ~Shows(t)
    BY DEF Init, Closed, Waits, Shows
  <2>2. TypeOK
    BY BareType DEF Init, TypeOK
  <2>3. SavedIsLastSearch
    BY DEF Init, SavedIsLastSearch, DefaultSearch
  <2> QED BY <2>1, <2>2, <2>3 DEF IInv, HeldBelongTogether, DrawnWellRead
<1>2. IInv /\ [Next]_vars => IInv'
  <2> SUFFICES ASSUME IInv, [Next]_vars PROVE IInv'
    OBVIOUS
  <2>1. CASE UNCHANGED vars
    BY <2>1 DEF vars, IInv, TypeOK, SavedIsLastSearch, HeldBelongTogether,
                DrawnWellRead, Waits, Shows
  <2>2. ASSUME NEW t \in Tabs, TabStep(t) PROVE IInv'
    BY <2>2, TabSteps, ArriveKeeps, AnswerKeeps
  <2>3. ASSUME NEW u \in Users, SignIn(u) PROVE IInv'
    BY <2>3, SignInKeeps
  <2> QED BY <2>1, <2>2, <2>3 DEF Next
<1> QED BY <1>1, <1>2, PTL DEF Spec

\* The variables have their types: filters hold only what the route knows.
THEOREM TypeCorrect == Spec => []TypeOK
<1>1. IInv => TypeOK
  BY DEF IInv
<1> QED BY <1>1, SearchesAreKept, PTL

LandingIsLastSearch ==
    \A t \in Tabs : Land(t) => BackendQuery(tab'[t].filters, user) = lastSearch

\* A bare landing lists what the last search listed, in whatever order the
\* tabs' requests arrive and are answered.
THEOREM LandingComesBack == Spec => BareShowsLastSearch
<1>1. IInv /\ [Next]_vars => LandingIsLastSearch
  <2> SUFFICES ASSUME IInv, NEW t \in Tabs, Land(t)
               PROVE  BackendQuery(tab'[t].filters, user) = lastSearch
    BY DEF LandingIsLastSearch
  <2>1. ~HasFilterParams(Bare)
    BY DEF HasFilterParams
  <2>2. tab'[t].filters = ReadFilters(saved, user)
    BY <2>1 DEF Land, Arrive, IInv, TypeOK
  <2> QED BY <2>2 DEF IInv, SavedIsLastSearch
<1>2. Spec => [][LandingIsLastSearch]_vars
  <2>1. Spec => [][Next]_vars
    BY PTL DEF Spec
  <2> QED BY <1>1, <2>1, SearchesAreKept, PTL
<1> QED BY <1>2 DEF BareShowsLastSearch, LandingIsLastSearch

\* A link that carries something is read for what it carries.
LEMMA ArriveReads ==
    ASSUME IInv, NEW t \in Tabs, NEW q, q # Bare, Arrive(t, q, FALSE)
    PROVE  tab'[t].filters = ReadFilters(q, user)
  BY DEF Arrive, HasFilterParams, IInv, TypeOK

KeepsTheSearch == \A t \in Tabs : \A n \in 1..MaxPages : KeepsSearch(t, n)

\* A link to another page asks for the same search, whatever the other tabs
\* did since the page was drawn.
THEOREM PageLinksKeepTheSearch == Spec => PageLinkKeepsSearch
<1>1. IInv /\ [Next]_vars => KeepsTheSearch
  <2> SUFFICES ASSUME IInv, NEW t \in Tabs, NEW n \in 1..MaxPages
               PROVE  KeepsSearch(t, n)
    BY DEF KeepsTheSearch
  <2> DEFINE f == tab[t].filters
             p == [f EXCEPT !.page = n]
             g == ReadFilters(Href(p), user)
  <2> SUFFICES ASSUME FollowPageLink(t, n), tab[t].user = user,
                      f.applied \/ (f.sort # "none" /\ f.mode # "any"),
                      PageHref(f, n) # Bare
               PROVE  BackendQuery(tab'[t].filters, user)
                          = [BackendQuery(f, user) EXCEPT !.page = n]
    BY DEF KeepsSearch
  <2>1. WellRead(f) /\ f \in Filters /\ Defaulted(f, user) /\ user \in Users
    BY DEF FollowPageLink, IInv, DrawnWellRead, WellRead, TypeOK
  <2>2. tab'[t].filters = g
    BY ArriveReads DEF FollowPageLink, PageHref
  <2>3. /\ p.ticked = f.ticked /\ p.sort = f.sort /\ p.sortExplicit = f.sortExplicit
        /\ p.mode = f.mode /\ p.modeExplicit = f.modeExplicit /\ p.officer = f.officer
        /\ p.organisation = f.organisation /\ p.search = f.search
        /\ p.archived = f.archived /\ p.applied = f.applied /\ p.page = n
    BY <2>1 DEF Filters
  <2>4. WellRead(p) /\ Defaulted(p, user)
    BY <2>1, <2>3, PageWellRead DEF Defaulted
  <2> HIDE DEF p
  <2>5. /\ g.organisation = f.organisation /\ g.search = f.search
        /\ g.archived = f.archived /\ g.page = n /\ g.ticked = f.ticked
        /\ g.officer = IF f.mode = "user" THEN f.officer ELSE Nobody
    BY <2>1, <2>3, <2>4, ReadBack
  <2>6. g.sort = f.sort
    BY <2>1, <2>3, <2>4, ReadBack DEF Defaulted
  <2>7. g.mode = f.mode
    BY <2>1, <2>3, <2>4, ReadBack DEF Defaulted
  <2> HIDE DEF g
  <2>8. WasteProcessingTypes(g) = WasteProcessingTypes(f)
    BY <2>5 DEF WasteProcessingTypes
  <2>9. BackendAssignee(g, user) = BackendAssignee(f, user)
    BY <2>5, <2>7 DEF BackendAssignee
  <2>10. BackendQuery(g, user) = [BackendQuery(f, user) EXCEPT !.page = n]
    <3> DEFINE types(x) == {ToBackendTypeId(o) : o \in x.ticked.typeId}
                              \cup x.ticked.applicationType
               states(x) == UNION {StateIdsOf(o) : o \in x.ticked.status}
               materials(x) == {ToBackendMaterial(o) : o \in x.ticked.material}
               nations(x) == x.ticked.nation
               form(x) ==
                   [typeIds |-> types(x),
                    wasteProcessingTypes |-> WasteProcessingTypes(x),
                    stateIds |-> states(x), nations |-> nations(x),
                    materials |-> materials(x), sort |-> x.sort,
                    organisation |-> x.organisation, search |-> x.search,
                    assigneeId |-> BackendAssignee(x, user),
                    unassigned |-> x.mode = "unassigned",
                    includeArchived |-> x.archived, page |-> x.page]
    <3>1. types(g) = types(f)
      BY <2>5
    <3>2. states(g) = states(f)
      BY <2>5
    <3>3. materials(g) = materials(f)
      BY <2>5
    <3>4. nations(g) = nations(f)
      BY <2>5
    <3>5. BackendQuery(g, user) = form(g) /\ BackendQuery(f, user) = form(f)
      BY Zenon DEF BackendQuery
    <3> HIDE DEF types, states, materials, nations
    <3>6. form(g) = [form(f) EXCEPT !.page = n]
      BY <2>5, <2>6, <2>7, <2>8, <2>9, <3>1, <3>2, <3>3, <3>4
    <3> QED BY <3>5, <3>6
  <2> QED BY <2>2, <2>10
<1>2. Spec => [][KeepsTheSearch]_vars
  <2>1. Spec => [][Next]_vars
    BY PTL DEF Spec
  <2> QED BY <1>1, <2>1, SearchesAreKept, PTL
<1> QED BY <1>2 DEF PageLinkKeepsSearch, KeepsTheSearch

-----------------------------------------------------------------------------
(* The tags.                                                               *)

\* Filters w are filters f without the tag.
Lacks(w, f, chip) ==
    /\ w.applied /\ w.search = f.search
    /\ \A g \in Groups : w.ticked[g] = {v \in f.ticked[g] : <<g, v>> # chip}
    /\ w.sortExplicit = (f.sortExplicit /\ chip[1] # "sort")
    /\ w.sortExplicit => w.sort = f.sort
    /\ w.modeExplicit = (f.modeExplicit /\ chip[1] # "assignment")
    /\ w.modeExplicit => w.mode = f.mode
    /\ w.organisation = IF chip[1] = "organisation" THEN NoText ELSE f.organisation
    /\ w.archived = (f.archived /\ chip[1] # "archived")

\* Filters with a tag removed are the ones before but for what it names.
LEMMA WithoutOne ==
    ASSUME NEW f, WellRead(f), NEW chip \in Chips(f)
    PROVE  Lacks(WithoutFilter(f, chip), f, chip)
<1> DEFINE w == WithoutFilter(f, chip)
           next == [f EXCEPT !.page = 1, !.applied = TRUE]
<1>1. /\ f \in Filters /\ f.sortExplicit \in BOOLEAN /\ f.modeExplicit \in BOOLEAN
      /\ f.archived \in BOOLEAN
  BY DEF WellRead, Filters
<1>2. /\ next \in Filters /\ next.applied = TRUE
      /\ next.ticked = f.ticked /\ next.sort = f.sort /\ next.sortExplicit = f.sortExplicit
      /\ next.mode = f.mode /\ next.modeExplicit = f.modeExplicit
      /\ next.organisation = f.organisation /\ next.search = f.search
      /\ next.archived = f.archived
  <2>1. 1 \in 1..MaxPages
    BY MaxPagesAssumption
  <2> QED BY <1>1, <2>1 DEF Filters
<1>20. ASSUME NEW g \in Groups, \A v : <<g, v>> # chip
        PROVE  f.ticked[g] = {v \in f.ticked[g] : <<g, v>> # chip}
  BY <1>20
<1> HIDE DEF next
<1>3. CASE OfKind(chip, "assignment")
  <2>1. w = [next EXCEPT !.mode = "any", !.modeExplicit = FALSE, !.officer = Nobody]
    BY <1>3 DEF WithoutFilter, next, OfKind
  <2>2. /\ w.applied = next.applied /\ w.search = next.search /\ w.ticked = next.ticked
        /\ w.sort = next.sort
        /\ w.sortExplicit = next.sortExplicit
        /\ w.organisation = next.organisation
        /\ w.archived = next.archived
        /\ w.modeExplicit = FALSE
    BY <1>2, <2>1 DEF Filters
  <2>3. \A g \in Groups : w.ticked[g] = {v \in f.ticked[g] : <<g, v>> # chip}
    BY <1>2, <1>3, <2>2, <1>20, GroupsAre DEF OfKind
  <2>4. chip[1] = "assignment"
    BY <1>3 DEF OfKind
  <2> QED BY <1>1, <1>2, <2>2, <2>3, <2>4 DEF Lacks
<1>4. CASE OfKind(chip, "organisation")
  <2>1. w = [next EXCEPT !.organisation = NoText]
    BY <1>4 DEF WithoutFilter, next, OfKind
  <2>2. /\ w.applied = next.applied /\ w.search = next.search /\ w.ticked = next.ticked
        /\ w.sort = next.sort
        /\ w.sortExplicit = next.sortExplicit
        /\ w.mode = next.mode
        /\ w.modeExplicit = next.modeExplicit
        /\ w.archived = next.archived
        /\ w.organisation = NoText
    BY <1>2, <2>1 DEF Filters
  <2>3. \A g \in Groups : w.ticked[g] = {v \in f.ticked[g] : <<g, v>> # chip}
    BY <1>2, <1>4, <2>2, <1>20, GroupsAre DEF OfKind
  <2>4. chip[1] = "organisation"
    BY <1>4 DEF OfKind
  <2> QED BY <1>1, <1>2, <2>2, <2>3, <2>4 DEF Lacks
<1>5. CASE OfKind(chip, "sort")
  <2>1. w = [next EXCEPT !.sort = "none", !.sortExplicit = FALSE]
    BY <1>5 DEF WithoutFilter, next, OfKind
  <2>2. /\ w.applied = next.applied /\ w.search = next.search /\ w.ticked = next.ticked
        /\ w.mode = next.mode
        /\ w.modeExplicit = next.modeExplicit
        /\ w.organisation = next.organisation
        /\ w.archived = next.archived
        /\ w.sortExplicit = FALSE
    BY <1>2, <2>1 DEF Filters
  <2>3. \A g \in Groups : w.ticked[g] = {v \in f.ticked[g] : <<g, v>> # chip}
    BY <1>2, <1>5, <2>2, <1>20, GroupsAre DEF OfKind
  <2>4. chip[1] = "sort"
    BY <1>5 DEF OfKind
  <2> QED BY <1>1, <1>2, <2>2, <2>3, <2>4 DEF Lacks
<1>6. CASE OfKind(chip, "archived")
  <2>1. w = [next EXCEPT !.archived = FALSE]
    BY <1>6 DEF WithoutFilter, next, OfKind
  <2>2. /\ w.applied = next.applied /\ w.search = next.search /\ w.ticked = next.ticked
        /\ w.sort = next.sort
        /\ w.sortExplicit = next.sortExplicit
        /\ w.mode = next.mode
        /\ w.modeExplicit = next.modeExplicit
        /\ w.organisation = next.organisation
        /\ w.archived = FALSE
    BY <1>2, <2>1 DEF Filters
  <2>3. \A g \in Groups : w.ticked[g] = {v \in f.ticked[g] : <<g, v>> # chip}
    BY <1>2, <1>6, <2>2, <1>20, GroupsAre DEF OfKind
  <2>4. chip[1] = "archived"
    BY <1>6 DEF OfKind
  <2> QED BY <1>1, <1>2, <2>2, <2>3, <2>4 DEF Lacks
<1>7. ASSUME NEW h \in Groups, NEW x \in f.ticked[h], chip = <<h, x>>
      PROVE  Lacks(w, f, chip)
  <2> DEFINE fewer == [g \in Groups |->
                IF g = chip[1] THEN f.ticked[g] \ {chip[2]} ELSE f.ticked[g]]
  <2>1. chip[1] = h /\ chip[2] = x
    BY <1>7
  <2>2. chip[1] \notin {"sort", "assignment", "organisation", "archived"}
    BY <2>1, GroupsAre
  <2>3. w = [next EXCEPT !.ticked = fewer]
    BY <2>2 DEF WithoutFilter, next
  <2>4. \A g \in Groups : fewer[g] = {v \in f.ticked[g] : <<g, v>> # chip}
    <3> SUFFICES ASSUME NEW g \in Groups
                 PROVE  fewer[g] = {v \in f.ticked[g] : <<g, v>> # chip}
      OBVIOUS
    <3>1. \A v : <<g, v>> # chip <=> (g # h \/ v # x)
      BY <1>7
    <3>2. fewer[g] = IF g = h THEN f.ticked[g] \ {x} ELSE f.ticked[g]
      BY <2>1
    <3> HIDE DEF fewer
    <3> QED BY <3>1, <3>2
  <2> HIDE DEF fewer
  <2>5. /\ w.applied = next.applied /\ w.search = next.search /\ w.ticked = fewer
        /\ w.sort = next.sort /\ w.sortExplicit = next.sortExplicit
        /\ w.mode = next.mode /\ w.modeExplicit = next.modeExplicit
        /\ w.organisation = next.organisation /\ w.archived = next.archived
    BY <1>2, <2>3 DEF Filters
  <2> QED BY <1>1, <1>2, <2>2, <2>4, <2>5 DEF Lacks
<1> HIDE DEF w
<1>8. ASSUME NEW h \in Groups, NEW x \in f.ticked[h], chip = <<h, x>>
      PROVE  Lacks(WithoutFilter(f, chip), f, chip)
  BY <1>7, <1>8 DEF w
<1>9. CASE OfBox(f, chip)
  <2>1. PICK h \in Groups : \E x \in f.ticked[h] : chip = <<h, x>>
    BY <1>9 DEF OfBox
  <2>2. PICK x \in f.ticked[h] : chip = <<h, x>>
    BY <2>1
  <2> QED BY <1>8, <2>2
<1> QED BY <1>3, <1>4, <1>5, <1>6, <1>9, ChipKinds DEF w

TagsDropOnlyTheirs ==
    \A t \in Tabs : Shows(t) =>
        \A chip \in Chips(tab[t].filters) : DropsOnly(t, chip)

\* Removing a tag drops the one filter it names, keeps every other one the
\* reader chose and brings no default back.
THEOREM TagsDropOnlyWhatTheyName == Spec => ChipDropsOnlyItsFilter
<1>1. IInv /\ [Next]_vars => TagsDropOnlyTheirs
  <2> SUFFICES ASSUME IInv, NEW t \in Tabs, Shows(t),
                      NEW chip \in Chips(tab[t].filters), RemoveChip(t, chip)
               PROVE  DropsOnly(t, chip)
    BY DEF TagsDropOnlyTheirs, DropsOnly
  <2> DEFINE f == tab[t].filters
             w == WithoutFilter(f, chip)
             after == tab'[t].filters
  <2>1. WellRead(f) /\ user \in Users
    BY DEF IInv, DrawnWellRead, TypeOK
  <2>2. Lacks(w, f, chip)
    BY <2>1, WithoutOne
  <2>3. WellRead(w)
    BY <2>1, WithoutWellRead
  <2>4. after = ReadFilters(Href(w), user)
    <3>1. Href(w) # Bare
      BY <2>2 DEF Href, Bare, Lacks
    <3>2. Arrive(t, Href(w), FALSE)
      BY DEF RemoveChip
    <3> QED BY <3>1, <3>2, ArriveReads
  <2> HIDE DEF w, after
  <2>5. /\ after.organisation = w.organisation /\ after.search = w.search
        /\ after.archived = w.archived /\ after.ticked = w.ticked
        /\ after.sortExplicit = w.sortExplicit /\ after.modeExplicit = w.modeExplicit
        /\ after.sort = IF w.sortExplicit THEN w.sort ELSE "none"
        /\ after.mode = IF w.modeExplicit THEN w.mode ELSE "any"
    BY <2>1, <2>2, <2>3, <2>4, ReadBack DEF Lacks
  <2>6. /\ \A g \in Groups : after.ticked[g] = {v \in f.ticked[g] : <<g, v>> # chip}
        /\ after.sort = IF f.sortExplicit /\ chip[1] # "sort" THEN f.sort ELSE "none"
        /\ after.mode = IF f.modeExplicit /\ chip[1] # "assignment"
                          THEN f.mode ELSE "any"
        /\ chip[1] # "organisation" => after.organisation = f.organisation
        /\ chip[1] # "archived" => after.archived = f.archived
        /\ after.search = f.search
    <3>1. \A g \in Groups : after.ticked[g] = {v \in f.ticked[g] : <<g, v>> # chip}
      BY <2>2, <2>5 DEF Lacks
    <3>2. after.sort = IF f.sortExplicit /\ chip[1] # "sort" THEN f.sort ELSE "none"
      BY <2>2, <2>5 DEF Lacks
    <3>3. after.mode = IF f.modeExplicit /\ chip[1] # "assignment" THEN f.mode ELSE "any"
      BY <2>2, <2>5 DEF Lacks
    <3>4. /\ chip[1] # "organisation" => after.organisation = f.organisation
          /\ chip[1] # "archived" => after.archived = f.archived
          /\ after.search = f.search
      BY <2>1, <2>2, <2>5 DEF Lacks, WellRead, Filters
    <3> QED BY <3>1, <3>2, <3>3, <3>4
  <2>7. chip \notin Chips(after)
    <3> SUFFICES ASSUME chip \in Chips(after) PROVE FALSE
      OBVIOUS
    <3>1. \/ chip[1] = "assignment" /\ after.modeExplicit
          \/ chip[1] = "organisation" /\ after.organisation # NoText
          \/ chip[1] = "sort" /\ after.sortExplicit
          \/ chip[1] = "archived" /\ after.archived
          \/ OfBox(after, chip)
      BY ChipKinds, KeyOf
    <3>2. ~OfBox(after, chip)
      BY <2>6 DEF OfBox
    <3> QED BY <2>1, <2>2, <2>5, <3>1, <3>2 DEF Lacks
  <2> HIDE DEF f
  <2> QED BY <2>6, <2>7 DEF DropsOnly, f, after
<1>2. Spec => [][TagsDropOnlyTheirs]_vars
  <2>1. Spec => [][Next]_vars
    BY PTL DEF Spec
  <2> QED BY <1>1, <2>1, SearchesAreKept, PTL
<1> QED BY <1>2 DEF ChipDropsOnlyItsFilter, TagsDropOnlyTheirs

-----------------------------------------------------------------------------
(* What is listed.                                                         *)

\* An option asks for a state exactly when its text is the name the state is
\* shown under.
LEMMA OptionsReadAsNames ==
    ASSUME NEW o \in StatusOptions, NEW s \in Declared!States
    PROVE  s \in StateIdsOf(o) <=> DisplayName(s) = StatusText(o)
<1>1. CASE o = "submitted"
  BY <1>1 DEF StateIdsOf, DisplayName, StatusText, Declared!States,
              Declared!PendingContactStates, Declared!TerminalStates
<1>2. CASE o = "duly-made"
  BY <1>2 DEF StateIdsOf, DisplayName, StatusText, Declared!States,
              Declared!PendingContactStates, Declared!TerminalStates
<1>3. CASE o = "updated"
  BY <1>3 DEF StateIdsOf, DisplayName, StatusText, Declared!States,
              Declared!PendingContactStates, Declared!TerminalStates
<1>4. CASE o = "awaiting-decision"
  BY <1>4 DEF StateIdsOf, DisplayName, StatusText, Declared!States,
              Declared!PendingContactStates, Declared!TerminalStates
<1>5. CASE o = "queried"
  BY <1>5 DEF StateIdsOf, DisplayName, StatusText, Declared!States,
              Declared!PendingContactStates, Declared!TerminalStates
<1>6. CASE o = "approved-pending-contact"
  BY <1>6 DEF StateIdsOf, DisplayName, StatusText, Declared!States,
              Declared!PendingContactStates, Declared!TerminalStates
<1>7. CASE o = "approved"
  BY <1>7 DEF StateIdsOf, DisplayName, StatusText, Declared!States,
              Declared!PendingContactStates, Declared!TerminalStates
<1>8. CASE o = "rejected"
  BY <1>8 DEF StateIdsOf, DisplayName, StatusText, Declared!States,
              Declared!PendingContactStates, Declared!TerminalStates
<1>9. CASE o = "withdrawn"
  BY <1>9 DEF StateIdsOf, DisplayName, StatusText, Declared!States,
              Declared!PendingContactStates, Declared!TerminalStates
<1> QED
  BY <1>1, <1>2, <1>3, <1>4, <1>5, <1>6, <1>7, <1>8, <1>9 DEF StatusOptions

\* No option is without a state.
LEMMA OptionsAskForSomething ==
    ASSUME NEW o PROVE StateIdsOf(o) # {}
  BY DEF StateIdsOf

\* The ticked statuses ask for a state exactly when one of their texts is its
\* name, or none is ticked.
LEMMA StatusesReadAsNames ==
    ASSUME NEW options \in SUBSET StatusOptions, NEW s \in Declared!States
    PROVE  OneOf(UNION {StateIdsOf(o) : o \in options}, s)
             <=> OneOf({StatusText(o) : o \in options}, DisplayName(s))
<1>1. CASE options = {}
  BY <1>1 DEF OneOf
<1>2. CASE options # {}
  <2>1. UNION {StateIdsOf(o) : o \in options} # {}
    BY <1>2, OptionsAskForSomething
  <2>2. {StatusText(o) : o \in options} # {}
    BY <1>2
  <2>3. s \in UNION {StateIdsOf(o) : o \in options}
          <=> \E o \in options : s \in StateIdsOf(o)
    OBVIOUS
  <2>4. DisplayName(s) \in {StatusText(o) : o \in options}
          <=> \E o \in options : DisplayName(s) = StatusText(o)
    OBVIOUS
  <2> QED BY <2>1, <2>2, <2>3, <2>4, OptionsReadAsNames DEF OneOf
<1> QED BY <1>1, <1>2

\* The types asked of the backend: with an applicant ticked, the one type of
\* item there is is among them; with none, they are the application types.
LEMMA TypesAsked ==
    ASSUME NEW applicants \in SUBSET {ReAccreditation, "exporter"},
           NEW applications
    PROVE  OneOf({ToBackendTypeId(o) : o \in applicants} \cup applications,
                 ReAccreditation)
             <=> (applicants = {} => OneOf(applications, ReAccreditation))
<1>1. CASE applicants = {}
  <2>1. {ToBackendTypeId(o) : o \in applicants} \cup applications = applications
    BY <1>1
  <2> QED BY <1>1, <2>1
<1>2. CASE applicants # {}
  <2>1. ReAccreditation \in {ToBackendTypeId(o) : o \in applicants}
    BY <1>2 DEF ToBackendTypeId
  <2> QED BY <1>2, <2>1 DEF OneOf
<1> QED BY <1>1, <1>2

\* The kinds of applicant asked of the backend are those ticked, and both are
\* no narrowing, like neither.
LEMMA ApplicantsAsked ==
    ASSUME NEW f, f.ticked.typeId \subseteq {ReAccreditation, "exporter"},
           NEW applicant \in {"Exporter", "Reprocessor"}
    PROVE  OneOf(WasteProcessingTypes(f), applicant)
             <=> OneOf({ApplicantText(o) : o \in f.ticked.typeId}, applicant)
<1> DEFINE applicants == f.ticked.typeId
           texts == {ApplicantText(o) : o \in applicants}
<1>0. ReAccreditation # "exporter"
  BY DEF ReAccreditation
<1>1. CASE applicants = {}
  <2>1. WasteProcessingTypes(f) = {}
    BY <1>1 DEF WasteProcessingTypes
  <2>2. texts = {}
    BY <1>1
  <2> QED BY <2>1, <2>2 DEF OneOf
<1>2. CASE applicants = {"exporter"}
  <2>1. WasteProcessingTypes(f) = {"Exporter"}
    BY <1>0, <1>2 DEF WasteProcessingTypes
  <2>2. texts = {"Exporter"}
    BY <1>2 DEF ApplicantText
  <2> QED BY <2>1, <2>2
<1>3. CASE applicants = {ReAccreditation}
  <2>1. WasteProcessingTypes(f) = {"Reprocessor"}
    BY <1>0, <1>3 DEF WasteProcessingTypes
  <2>2. texts = {"Reprocessor"}
    BY <1>0, <1>3 DEF ApplicantText
  <2> QED BY <2>1, <2>2
<1>4. CASE applicants = {ReAccreditation, "exporter"}
  <2>1. WasteProcessingTypes(f) = {}
    BY <1>0, <1>4 DEF WasteProcessingTypes
  <2>2. texts = {"Exporter", "Reprocessor"}
    BY <1>0, <1>4 DEF ApplicantText
  <2> QED BY <2>1, <2>2 DEF OneOf
<1> QED BY <1>1, <1>2, <1>3, <1>4

\* The assignee asked of the backend is the one the radio names.
LEMMA AssigneeAsked ==
    ASSUME NEW f \in Filters, NEW u \in Users, NEW assignedTo
    PROVE  /\ BackendAssignee(f, u) # Nobody => assignedTo = BackendAssignee(f, u)
           /\ f.mode = "unassigned" => assignedTo = Nobody
           <=>
           /\ f.mode = "mine" => assignedTo = u
           /\ f.mode = "unassigned" => assignedTo = Nobody
           /\ (f.mode = "user" /\ f.officer # Nobody) => assignedTo = f.officer
  BY NobodyAssumption DEF BackendAssignee

\* Well-read filters list an item exactly when what was ticked asks for it.
LEMMA MatchesAsTicked ==
    ASSUME NEW f, WellRead(f), NEW u \in Users, NEW item \in Items
    PROVE  Matches(BackendQuery(f, u), item) <=> AsTicked(f, u, item)
<1> DEFINE query == BackendQuery(f, u)
           applicant == IF item.exporter THEN "Exporter" ELSE "Reprocessor"
           statuses == {StatusText(o) : o \in f.ticked.status}
           applicants == {ApplicantText(o) : o \in f.ticked.typeId}
           materials == {ToBackendMaterial(o) : o \in f.ticked.material}
<1>1. /\ item.typeId = ReAccreditation /\ item.stateId \in Declared!States
      /\ f \in Filters
  BY ItemsAssumption DEF WellRead
<1>2. /\ f.ticked.status \in SUBSET StatusOptions
      /\ f.ticked.typeId \in SUBSET {ReAccreditation, "exporter"}
  BY DEF WellRead, Options, Groups
<1>3. OneOf(query.stateIds, item.stateId)
        <=> OneOf(statuses, DisplayName(item.stateId))
  BY <1>1, <1>2, StatusesReadAsNames DEF BackendQuery
<1>4. OneOf(query.typeIds, item.typeId)
        <=> (f.ticked.typeId = {} => OneOf(f.ticked.applicationType, item.typeId))
  BY <1>1, <1>2, TypesAsked DEF BackendQuery
<1>5. OneOf(query.wasteProcessingTypes, applicant) <=> OneOf(applicants, applicant)
  <2>1. applicant \in {"Exporter", "Reprocessor"}
    OBVIOUS
  <2> HIDE DEF applicant
  <2> QED BY <1>2, <2>1, ApplicantsAsked DEF BackendQuery
<1>6. /\ query.assigneeId = BackendAssignee(f, u)
      /\ query.unassigned <=> f.mode = "unassigned"
      /\ query.nations = f.ticked.nation /\ query.materials = materials
      /\ query.includeArchived = f.archived
  BY DEF BackendQuery
<1>7. /\ query.assigneeId # Nobody => item.assignedTo = query.assigneeId
      /\ query.unassigned => item.assignedTo = Nobody
      <=>
      /\ f.mode = "mine" => item.assignedTo = u
      /\ f.mode = "unassigned" => item.assignedTo = Nobody
      /\ (f.mode = "user" /\ f.officer # Nobody) => item.assignedTo = f.officer
  BY <1>1, <1>6, AssigneeAsked
<1>8. Card(item) = [status |-> DisplayName(item.stateId), applicant |-> applicant,
                    material |-> item.material, assignee |-> item.assignedTo]
  BY DEF Card
<1>9. AsTicked(f, u, item) <=>
        /\ OneOf(statuses, DisplayName(item.stateId))
        /\ OneOf(applicants, applicant)
        /\ OneOf(f.ticked.nation, item.nation)
        /\ OneOf(materials, item.material)
        /\ f.mode = "mine" => item.assignedTo = u
        /\ f.mode = "unassigned" => item.assignedTo = Nobody
        /\ (f.mode = "user" /\ f.officer # Nobody) => item.assignedTo = f.officer
        /\ f.ticked.typeId = {} => OneOf(f.ticked.applicationType, item.typeId)
        /\ item.archived => f.archived
  <2> HIDE DEF applicant
  <2> QED BY <1>8 DEF AsTicked
<1>10. Matches(query, item) <=>
        /\ OneOf(query.typeIds, item.typeId)
        /\ OneOf(query.wasteProcessingTypes, applicant)
        /\ OneOf(query.stateIds, item.stateId)
        /\ OneOf(query.nations, item.nation)
        /\ OneOf(query.materials, item.material)
        /\ query.assigneeId # Nobody => item.assignedTo = query.assigneeId
        /\ query.unassigned => item.assignedTo = Nobody
        /\ item.archived => query.includeArchived
  BY DEF Matches
<1> HIDE DEF query, applicant, statuses, applicants, materials
<1>11. Matches(query, item) <=> AsTicked(f, u, item)
  BY <1>3, <1>4, <1>5, <1>6, <1>7, <1>9, <1>10
<1> QED BY <1>11 DEF query

\* Whatever the officers, the items, the bookmarks and the order of requests, a
\* list shows exactly the items its ticked boxes and radio ask for.
THEOREM ListsShowWhatIsTicked == Spec => []ListedAsTicked
<1>1. IInv => ListedAsTicked
  <2> SUFFICES ASSUME IInv, NEW t \in Tabs, Shows(t), NEW item \in Items
               PROVE  Matches(BackendQuery(tab[t].filters, tab[t].user), item)
                        <=> AsTicked(tab[t].filters, tab[t].user, item)
    BY DEF ListedAsTicked
  <2>1. WellRead(tab[t].filters)
    BY DEF IInv, DrawnWellRead
  <2>2. tab[t].user \in Users
    BY DEF IInv, TypeOK, Shows, Lists, Requests, Closed
  <2> QED BY <2>1, <2>2, MatchesAsTicked
<1> QED BY <1>1, SearchesAreKept, PTL
=============================================================================
