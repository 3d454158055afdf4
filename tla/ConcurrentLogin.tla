--------------------------- MODULE ConcurrentLogin ---------------------------
(***************************************************************************)
(* Concurrent sign-ins of one identity (common/helpers/auth/               *)
(* concurrent-login.js). Every sign-in stays valid; the sessions are only  *)
(* told of each other: the older one by an alert, worked out on each       *)
(* request from a registry that holds the identity's latest sign-in, the   *)
(* newer one by a note armed while it signs in.                            *)
(*                                                                         *)
(* The registry is a cache shared by the instances of the service. Each    *)
(* get, set and drop is a call of its own, awaited by one request while    *)
(* others run, and each may fail, which the code swallows. So is the       *)
(* session: a request works on the copy it loaded when it began, and one   *)
(* that changed it, a dismissal or a page that keeps something in it (the  *)
(* work list its filters, any page its banners), stores the copy whole     *)
(* when it is answered.                                                    *)
(***************************************************************************)
EXTENDS Naturals

CONSTANTS
    Sessions,   \* yar session ids, one per sign-in of the identity
    NoSession,  \* the id of no sign-in
    Tabs,       \* the browsers' tabs, each with a page on it or a request under way
    SessionOf,  \* the session of each tab's browser
    MaxTime     \* bound on the clock

ASSUME SessionsAssumption == NoSession \notin Sessions
ASSUME TabsAssumption == SessionOf \in [Tabs -> Sessions]
ASSUME MaxTimeAssumption == MaxTime \in Nat \ {0}

VARIABLES
    now,            \* Date.now()
    registry,       \* the registry entry of the identity
    pc,             \* how far each session is
    loginAt,        \* when its sign-in was stamped
    previous,       \* the entry its sign-in found
    entry,          \* the entry its sign-in sets
    stored,         \* what the session store has of it: concurrentLoginInfo and
                    \* concurrentLoginNoticeDismissedFor
    step,           \* where the tab's request is
    copy,           \* the session as that request has it
    notice,         \* the sign-in its page tells of
    dismissed,      \* the sign-ins whose notice each session dismissed
    stale,          \* the request loaded the session before a later dismissal
    undone,         \* a stale copy was stored over a dismissal
    trouble,        \* a registry call failed or the entry expired
    overlap         \* a sign-in began while another was under way

signIns == <<pc, loginAt, previous, entry>>
tabs == <<step, copy, notice, stale>>
vars == <<now, registry, pc, loginAt, previous, entry, stored, step, copy, notice,
          dismissed, stale, undone, trouble, overlap>>

Time == 0 .. MaxTime

Entries == [at : Time, id : Sessions \cup {NoSession}]

NoEntry == [at |-> 0, id |-> NoSession]

\* What a session holds of the notices: the armed note, and how far dismissed.
Copies == [info : Entries, dismissedFor : Time]

Blank == [info |-> NoEntry, dismissedFor |-> 0]

Init ==
    /\ now = 1
    /\ registry = NoEntry
    /\ pc = [s \in Sessions |-> "new"]
    /\ loginAt = [s \in Sessions |-> 0]
    /\ previous = [s \in Sessions |-> NoEntry]
    /\ entry = [s \in Sessions |-> NoEntry]
    /\ stored = [s \in Sessions |-> Blank]
    /\ step = [q \in Tabs |-> "open"]
    /\ copy = [q \in Tabs |-> Blank]
    /\ notice = [q \in Tabs |-> NoEntry]
    /\ dismissed = [s \in Sessions |-> {}]
    /\ stale = [q \in Tabs |-> FALSE]
    /\ undone = [s \in Sessions |-> FALSE]
    /\ trouble = FALSE
    /\ overlap = FALSE

-----------------------------------------------------------------------------
(* Faulty variants, used by no specification.                              *)

\* The dismissal not consulted before an alert.
NaggingAlertDue(s, c) ==
    /\ registry.id \notin {NoSession, s}
    /\ registry.at > loginAt[s]

\* A dismissal that reaches past the present.
FarLatestAt == now + 1

\* A logout that drops the entry whoever it points at.
CarelessIdAtClear(s) == registry.id

-----------------------------------------------------------------------------
(* Signing in: markLoginAndNotifyPrevious and recordLogin.                 *)

SigningIn(s) == pc[s] \in {"reading", "storing"}

\* The session is stamped, and the registry read is under way.
SignIn(s) ==
    /\ pc[s] = "new"
    /\ pc' = [pc EXCEPT ![s] = "reading"]
    /\ loginAt' = [loginAt EXCEPT ![s] = now]
    /\ overlap' = (overlap \/ \E t \in Sessions : SigningIn(t))
    /\ UNCHANGED <<now, registry, previous, entry, stored, tabs, dismissed, undone,
                   trouble>>

\* The read comes back with found, and the set is sent with the time of now.
Found(s, found) ==
    /\ pc[s] = "reading"
    /\ pc' = [pc EXCEPT ![s] = "storing"]
    /\ previous' = [previous EXCEPT ![s] = found]
    /\ entry' = [entry EXCEPT ![s] = [at |-> now, id |-> s]]
    /\ UNCHANGED <<now, registry, loginAt, stored, tabs, dismissed, undone, overlap>>

ReadPrevious(s) == Found(s, registry) /\ UNCHANGED trouble

ReadPreviousFails(s) == Found(s, NoEntry) /\ trouble' = TRUE

\* The set has been tried: the session is stored and live, with a note if it was
\* not the identity's only one. Until then no other request knows its id.
Established(s) ==
    /\ pc[s] = "storing"
    /\ pc' = [pc EXCEPT ![s] = "live"]
    /\ stored' = [stored EXCEPT ![s].info =
                    IF previous[s].id # s THEN previous[s] ELSE NoEntry]
    /\ previous' = [previous EXCEPT ![s] = NoEntry]
    /\ UNCHANGED <<now, loginAt, entry, tabs, dismissed, undone, overlap>>

Store(s) == Established(s) /\ registry' = entry[s] /\ UNCHANGED trouble

StoreFails(s) == Established(s) /\ trouble' = TRUE /\ UNCHANGED registry

-----------------------------------------------------------------------------
(* Browsing: the onPostAuth extension.                                     *)

\* computeAlertNotice, for a request of session s that has it as c: a newer
\* sign-in elsewhere that was not dismissed.
AlertDue(s, c) ==
    /\ registry.id \notin {NoSession, s}
    /\ registry.at > loginAt[s]
    /\ registry.at > c.dismissedFor

\* computeInfoNotice
InfoDue(c) == c.info.at > c.dismissedFor

InfoNotice(c) == IF InfoDue(c) THEN c.info ELSE NoEntry

\* A request of the tab begins: it loads the session, and asks the registry for
\* the latest sign-in.
Begin(q, at) ==
    /\ step[q] = "open"
    /\ pc[SessionOf[q]] = "live"
    /\ step' = [step EXCEPT ![q] = at]
    /\ copy' = [copy EXCEPT ![q] = stored[SessionOf[q]]]
    /\ UNCHANGED <<now, registry, signIns, stored, dismissed, stale, undone, trouble,
                   overlap>>

Load(q) ==
    /\ Begin(q, "loading")
    /\ notice' = [notice EXCEPT ![q] = NoEntry]

Checked(q, n) ==
    /\ step[q] = "loading"
    /\ step' = [step EXCEPT ![q] = "checked"]
    /\ notice' = [notice EXCEPT ![q] = n]
    /\ UNCHANGED <<now, registry, signIns, stored, copy, dismissed, stale, undone,
                   overlap>>

\* The registry answers: the alert wins over the note.
View(q) ==
    /\ Checked(q, IF AlertDue(SessionOf[q], copy[q]) THEN registry ELSE InfoNotice(copy[q]))
    /\ UNCHANGED trouble

\* The registry read fails: no alert, but the note needs no registry.
ViewFails(q) == Checked(q, InfoNotice(copy[q])) /\ trouble' = TRUE

\* The request is answered and has no copy of the session any more.
Answered(q) ==
    /\ step' = [step EXCEPT ![q] = "open"]
    /\ copy' = [copy EXCEPT ![q] = Blank]
    /\ UNCHANGED <<now, registry, signIns, trouble, overlap>>

\* A page that changed nothing in the session.
AnswerPage(q) ==
    /\ step[q] = "checked"
    /\ Answered(q)
    /\ stale' = [stale EXCEPT ![q] = FALSE]
    /\ UNCHANGED <<stored, notice, dismissed, undone>>

\* A page that did: what it had loaded of the notices is stored with the rest.
AnswerStoring(q) ==
    /\ step[q] = "checked"
    /\ Answered(q)
    /\ stored' = [stored EXCEPT ![SessionOf[q]] = copy[q]]
    /\ undone' = [undone EXCEPT ![SessionOf[q]] = @ \/ stale[q]]
    /\ stale' = [stale EXCEPT ![q] = FALSE]
    /\ UNCHANGED <<notice, dismissed>>

-----------------------------------------------------------------------------
(* Dismissing: dismissNotice.                                              *)

\* The notice on the page is dismissed.
Dismiss(q) ==
    /\ notice[q] # NoEntry
    /\ Begin(q, "dismissing")
    /\ UNCHANGED notice

\* The newest sign-in there is to dismiss: the registry's, else the present.
LatestAt == IF registry = NoEntry THEN now ELSE registry.at

\* The registry's answer, or its failure, is there: the request's copy has all up
\* to latestAt dismissed, and the note cleared.
Reached(q, latestAt) ==
    /\ step[q] = "dismissing"
    /\ step' = [step EXCEPT ![q] = "dismissed"]
    /\ copy' = [copy EXCEPT ![q] =
                  [info |-> NoEntry,
                   dismissedFor |-> IF latestAt > copy[q].dismissedFor THEN latestAt
                                    ELSE copy[q].dismissedFor]]
    /\ UNCHANGED <<now, registry, signIns, stored, notice, dismissed, stale, undone,
                   overlap>>

Reach(q) == Reached(q, LatestAt) /\ UNCHANGED trouble

ReachFails(q) == Reached(q, now) /\ trouble' = TRUE

\* The dismissal is stored and answered. What the session's other requests
\* loaded of it is out of date from now on.
AnswerDismissal(q) ==
    /\ step[q] = "dismissed"
    /\ Answered(q)
    /\ stored' = [stored EXCEPT ![SessionOf[q]] = copy[q]]
    /\ dismissed' = [dismissed EXCEPT ![SessionOf[q]] = @ \cup {notice[q]}]
    /\ notice' = [notice EXCEPT ![q] = NoEntry]
    /\ stale' = [p \in Tabs |-> p # q /\ (stale[p] \/ (SessionOf[p] = SessionOf[q] /\ step[p] # "open"))]
    /\ undone' = [undone EXCEPT ![SessionOf[q]] = stale[q]]

-----------------------------------------------------------------------------
(* Signing out: logout calls clearLogin, does not wait for it, and resets  *)
(* the session, which empties it and gives the request a new id. What the  *)
(* requests that are still under way do to the old one is left to SignIn.  *)

SignOut(s) ==
    /\ pc[s] = "live"
    /\ pc' = [pc EXCEPT ![s] = "leaving"]
    /\ loginAt' = [loginAt EXCEPT ![s] = 0]
    /\ entry' = [entry EXCEPT ![s] = NoEntry]
    /\ stored' = [stored EXCEPT ![s] = Blank]
    /\ dismissed' = [dismissed EXCEPT ![s] = {}]
    /\ undone' = [undone EXCEPT ![s] = FALSE]
    /\ step' = [q \in Tabs |-> IF SessionOf[q] = s THEN "open" ELSE step[q]]
    /\ copy' = [q \in Tabs |-> IF SessionOf[q] = s THEN Blank ELSE copy[q]]
    /\ notice' = [q \in Tabs |-> IF SessionOf[q] = s THEN NoEntry ELSE notice[q]]
    /\ stale' = [q \in Tabs |-> SessionOf[q] # s /\ stale[q]]
    /\ UNCHANGED <<now, registry, previous, trouble, overlap>>

\* request.yar.id, read when the registry's answer is there: by then it is the
\* new id, which no sign-in has recorded.
IdAtClear(s) == NoSession

Cleared(s) ==
    /\ pc[s] = "leaving"
    /\ pc' = [pc EXCEPT ![s] = "out"]
    /\ UNCHANGED <<now, loginAt, previous, entry, stored, tabs, dismissed, undone, overlap>>

Clear(s) ==
    /\ Cleared(s)
    /\ registry' = IF registry.id = IdAtClear(s) THEN NoEntry ELSE registry
    /\ UNCHANGED trouble

ClearFails(s) == Cleared(s) /\ trouble' = TRUE /\ UNCHANGED registry

-----------------------------------------------------------------------------
(* The cache's time to live, and time.                                     *)

others == <<signIns, stored, tabs, dismissed, undone, overlap>>

Expire ==
    /\ registry # NoEntry
    /\ registry' = NoEntry
    /\ trouble' = TRUE
    /\ UNCHANGED <<now, others>>

Tick ==
    /\ now < MaxTime
    /\ now' = now + 1
    /\ UNCHANGED <<registry, others, trouble>>

SessionStep(s) ==
    \/ SignIn(s) \/ ReadPrevious(s) \/ ReadPreviousFails(s)
    \/ Store(s) \/ StoreFails(s)
    \/ SignOut(s) \/ Clear(s) \/ ClearFails(s)

TabStep(q) ==
    \/ Load(q) \/ View(q) \/ ViewFails(q) \/ AnswerPage(q) \/ AnswerStoring(q)
    \/ Dismiss(q) \/ Reach(q) \/ ReachFails(q) \/ AnswerDismissal(q)

Next ==
    \/ \E s \in Sessions : SessionStep(s)
    \/ \E q \in Tabs : TabStep(q)
    \/ Expire
    \/ Tick

Spec == Init /\ [][Next]_vars

-----------------------------------------------------------------------------
(* What the code promises.                                                 *)

\* Every variable has its type and no dismissal, stored or about to be, is ahead
\* of the clock: nothing can be dismissed before it happened.
TypeOK ==
    /\ now \in Time
    /\ registry \in Entries
    /\ pc \in [Sessions -> {"new", "reading", "storing", "live", "leaving", "out"}]
    /\ loginAt \in [Sessions -> Time]
    /\ previous \in [Sessions -> Entries]
    /\ entry \in [Sessions -> Entries]
    /\ stored \in [Sessions -> Copies]
    /\ step \in [Tabs -> {"open", "loading", "checked", "dismissing", "dismissed"}]
    /\ copy \in [Tabs -> Copies]
    /\ notice \in [Tabs -> Entries]
    /\ dismissed \in [Sessions -> SUBSET Entries]
    /\ stale \in [Tabs -> BOOLEAN]
    /\ undone \in [Sessions -> BOOLEAN]
    /\ trouble \in BOOLEAN
    /\ overlap \in BOOLEAN
    /\ registry.at <= now
    /\ \A s \in Sessions : stored[s].dismissedFor <= now
    /\ \A q \in Tabs : copy[q].dismissedFor <= now

\* A dismissed notice stays gone, as dismissNotice has it, with one way for it to
\* come back. A page whose request began after a dismissal does not tell of that
\* sign-in again, though registry entries of overlapping sign-ins may be set out
\* of order and the dismissal is recorded against the registry's entry, not
\* against the notice on screen: unless a request that had loaded the session
\* before the dismissal stored its copy after it. Such a copy has the dismissal
\* undone, against the comment, until the session dismisses a notice again.
DismissedStaysGone ==
    \A q \in Tabs :
        step[q] = "checked" /\ ~stale[q] /\ ~undone[SessionOf[q]] =>
            notice[q] \notin dismissed[SessionOf[q]]

\* Of two live sessions whose sign-ins did not overlap, the later one has been
\* armed a note and the earlier one is due an alert, unless they dismissed it.
\* Sign-outs of other sessions do not blind them, and no copy of the session that
\* is stored late takes the note from them.
BothAreTold ==
    ~trouble /\ ~overlap =>
        \A s, t \in Sessions :
            /\ pc[s] = "live" /\ pc[t] = "live"
            /\ entry[s].at < loginAt[t]
            => /\ AlertDue(s, stored[s]) \/ stored[s].dismissedFor >= entry[t].at
               /\ InfoDue(stored[t]) \/ stored[t].dismissedFor >= entry[s].at

\* The comment in logout (routes/auth/controller.js) and the design note: a
\* sign-out drops the registry entry if it points at the session signing out,
\* so that no alert tells of a sign-in that has since been signed out.
SignedOutIsForgotten ==
    \A s \in Sessions : pc[s] = "out" /\ ~trouble => registry.id # s
=============================================================================
