------------------------ MODULE ConcurrentLoginProofs ------------------------
(***************************************************************************)
(* Proofs about ConcurrentLogin, for any number of sign-ins of one         *)
(* identity and of tabs. A sign-in's entry is set once, by the sign-in     *)
(* itself, so that one that has been in the registry and was replaced      *)
(* never comes back: that is why a notice dismissed against a later, or    *)
(* even an earlier, entry stays gone in every copy of the session that was *)
(* loaded after the dismissal, as long as no earlier copy is stored over   *)
(* it. And sign-ins that do not overlap set their entries in the order of  *)
(* their stamps.                                                           *)
(***************************************************************************)
EXTENDS ConcurrentLogin, TLAPS

Past == {"live", "leaving", "out"}

\* An entry of a sign-in that has tried to set it.
Settled(e) == e.id \in Sessions => pc[e.id] \in Past

StampedOf(s) ==
    /\ loginAt[s] <= now /\ entry[s].at <= now
    /\ pc[s] \in {"storing", "live"} => entry[s].id = s /\ loginAt[s] <= entry[s].at

\* No stamp is ahead of the clock, and no entry is without its sign-in.
Stamped ==
    /\ registry.id = NoSession => registry.at = 0
    /\ \A s \in Sessions : StampedOf(s)

SettledOf(s) ==
    /\ Settled(previous[s]) /\ Settled(stored[s].info)
    /\ \A e \in dismissed[s] : Settled(e)

SettledIn(q) == Settled(copy[q].info) /\ Settled(notice[q])

\* Whatever a session found, was armed with, was told of or dismissed.
AllSettled ==
    /\ Settled(registry)
    /\ \A s \in Sessions : SettledOf(s)
    /\ \A q \in Tabs : SettledIn(q)

\* A copy of the session that has what it dismissed: each entry is outdone by the
\* dismissal, or is in the registry no more.
Covers(s, c) ==
    /\ dismissed[s] # {} => c.info = NoEntry
    /\ \A e \in dismissed[s] : e.at <= c.dismissedFor \/ e # registry

Gone(s) ==
    /\ pc[s] # "live" => dismissed[s] = {}
    /\ NoEntry \notin dismissed[s]
    /\ ~undone[s] => Covers(s, stored[s])

\* A request that is not out of date has what the session dismissed, or has just
\* worked it out.
GoneIn(q) ==
    LET s == SessionOf[q] IN
    /\ step[q] # "open" => pc[s] = "live"
    /\ step[q] # "open" /\ ~stale[q] /\ (step[q] = "dismissed" \/ ~undone[s]) =>
          Covers(s, copy[q])
    /\ step[q] = "checked" /\ ~stale[q] /\ ~undone[s] => notice[q] \notin dismissed[s]
    /\ step[q] \in {"dismissing", "dismissed"} => notice[q] # NoEntry
    /\ step[q] = "dismissed" =>
          /\ copy[q].info = NoEntry
          /\ notice[q].at <= copy[q].dismissedFor \/ notice[q] # registry

\* Sign-ins one after the other: one at a time, and after those before it.
Apart(s, t) ==
    /\ SigningIn(s) /\ SigningIn(t) => s = t
    /\ SigningIn(s) /\ pc[t] = "live" => entry[t].at <= loginAt[s]

\* The registry holds the latest sign-in.
Latest(s) ==
    pc[s] = "live" => /\ entry[s].at <= registry.at
                      /\ registry.id = s => registry = entry[s]

\* A copy of the session of t that is armed with the sign-in of s, or with one
\* after it, or has dismissed it.
Armed(s, t, c) ==
    entry[s].at < loginAt[t] =>
        entry[s].at <= c.info.at \/ entry[s].at <= c.dismissedFor

\* A later sign-in finds the latest before it, and is armed with it.
Finds(s, t) ==
    pc[s] = "live" =>
        /\ pc[t] = "storing" => entry[s].at <= previous[t].at
        /\ pc[t] = "live" => Armed(s, t, stored[t])

\* And so is every request of it.
FindsIn(s, q) ==
    pc[s] = "live" /\ step[q] # "open" => Armed(s, SessionOf[q], copy[q])

TInv == TypeOK /\ Stamped

DInv ==
    /\ AllSettled
    /\ \A s \in Sessions : Gone(s)
    /\ \A q \in Tabs : GoneIn(q)

AInv == ~overlap => \A s, t \in Sessions : Apart(s, t)

BInv == ~overlap /\ ~trouble =>
            /\ \A s \in Sessions : Latest(s)
            /\ \A s, t \in Sessions : Finds(s, t)
            /\ \A s \in Sessions, q \in Tabs : FindsIn(s, q)

-----------------------------------------------------------------------------
(* Types and stamps.                                                       *)

LEMMA TimeFacts ==
    /\ 0 \in Time /\ 1 \in Time
    /\ \A n \in Time : n \in Nat
  BY MaxTimeAssumption DEF Time

LEMMA NextInstant == ASSUME NEW n \in Time, n < MaxTime PROVE n + 1 \in Time
  BY MaxTimeAssumption DEF Time

LEMMA NoEntryFacts ==
    NoEntry \in Entries /\ NoEntry.at = 0 /\ NoEntry.id = NoSession
  BY TimeFacts DEF NoEntry, Entries

LEMMA BlankFacts ==
    Blank \in Copies /\ Blank.info = NoEntry /\ Blank.dismissedFor = 0
  BY TimeFacts, NoEntryFacts DEF Blank, Copies

LEMMA EntryFacts ==
    ASSUME NEW n \in Time, NEW s \in Sessions
    PROVE  /\ [at |-> n, id |-> s] \in Entries
           /\ [at |-> n, id |-> s].at = n
           /\ [at |-> n, id |-> s].id = s
  BY DEF Entries

LEMMA EntryAt == \A e \in Entries : e.at \in Time /\ e.at \in Nat
  BY TimeFacts DEF Entries

LEMMA CopyFacts ==
    \A c \in Copies : /\ c.info \in Entries /\ c.info.at \in Nat
                      /\ c.dismissedFor \in Time /\ c.dismissedFor \in Nat
  BY TimeFacts, EntryAt DEF Copies

LEMMA TypesFirst == Init => TInv
<1> SUFFICES ASSUME Init PROVE TInv
  OBVIOUS
<1> USE DEF Init
<1>1. TypeOK
  <2>1. /\ loginAt \in [Sessions -> Time]
        /\ previous \in [Sessions -> Entries] /\ entry \in [Sessions -> Entries]
        /\ stored \in [Sessions -> Copies] /\ copy \in [Tabs -> Copies]
        /\ notice \in [Tabs -> Entries] /\ now \in Time /\ registry \in Entries
    BY TimeFacts, NoEntryFacts, BlankFacts
  <2>2. /\ dismissed \in [Sessions -> SUBSET Entries]
        /\ pc \in [Sessions -> {"new", "reading", "storing", "live", "leaving", "out"}]
        /\ step \in [Tabs -> {"open", "loading", "checked", "dismissing", "dismissed"}]
        /\ stale \in [Tabs -> BOOLEAN] /\ undone \in [Sessions -> BOOLEAN]
        /\ trouble \in BOOLEAN /\ overlap \in BOOLEAN
    OBVIOUS
  <2>3. /\ registry.at <= now /\ \A s \in Sessions : stored[s].dismissedFor <= now
        /\ \A q \in Tabs : copy[q].dismissedFor <= now
    BY NoEntryFacts, BlankFacts
  <2> QED BY <2>1, <2>2, <2>3 DEF TypeOK
<1>2. Stamped
  BY NoEntryFacts DEF Init, Stamped, StampedOf
<1> QED BY <1>1, <1>2 DEF TInv

\* What the tabs and the copies of the sessions are.
TabTypes ==
    /\ stored \in [Sessions -> Copies]
    /\ step \in [Tabs -> {"open", "loading", "checked", "dismissing", "dismissed"}]
    /\ copy \in [Tabs -> Copies]
    /\ notice \in [Tabs -> Entries]
    /\ dismissed \in [Sessions -> SUBSET Entries]
    /\ stale \in [Tabs -> BOOLEAN]
    /\ undone \in [Sessions -> BOOLEAN]
    /\ \A s \in Sessions : stored[s].dismissedFor <= now
    /\ \A q \in Tabs : copy[q].dismissedFor <= now

\* What the sign-ins are.
SignInTypes ==
    /\ pc \in [Sessions -> {"new", "reading", "storing", "live", "leaving", "out"}]
    /\ loginAt \in [Sessions -> Time]
    /\ previous \in [Sessions -> Entries]
    /\ entry \in [Sessions -> Entries]

RestTypes ==
    /\ now \in Time /\ registry \in Entries
    /\ trouble \in BOOLEAN /\ overlap \in BOOLEAN
    /\ registry.at <= now

LEMMA TabTypesStay ==
    ASSUME TypeOK, now' = now, UNCHANGED <<stored, tabs, dismissed, undone>>
    PROVE  TabTypes'
  BY DEF TypeOK, TabTypes, tabs

LEMMA StampsStay ==
    ASSUME TInv, NEW t \in Sessions, StampedOf(t), now' \in Nat, now' >= now,
           UNCHANGED <<loginAt[t], entry[t], pc[t]>>
    PROVE  StampedOf(t)'
<1>1. loginAt[t] \in Nat /\ entry[t].at \in Nat /\ now \in Nat
  BY TimeFacts, EntryAt DEF TInv, TypeOK
<1> QED BY <1>1 DEF StampedOf

LEMMA SignInTyped ==
    ASSUME TInv, NEW s \in Sessions, SignIn(s)
    PROVE  TInv'
<1>1. overlap' \in BOOLEAN
  BY DEF SignIn, TInv, TypeOK
<1>2. TypeOK'
  <2>1. SignInTypes' /\ RestTypes'
    BY <1>1 DEF SignIn, TInv, TypeOK, SignInTypes, RestTypes
  <2>2. TabTypes'
    BY TabTypesStay DEF SignIn, TInv
  <2> QED BY <2>1, <2>2 DEF TypeOK, TabTypes, SignInTypes, RestTypes
<1>3. now \in Nat
  BY TimeFacts DEF TInv, TypeOK
<1>4. ASSUME NEW t \in Sessions PROVE StampedOf(t)'
  <2>1. CASE t = s
    BY <1>3, <2>1 DEF SignIn, TInv, TypeOK, Stamped, StampedOf
  <2>2. CASE t # s
    BY <1>3, <2>2, StampsStay DEF SignIn, TInv, TypeOK, Stamped
  <2> QED BY <2>1, <2>2
<1> QED BY <1>2, <1>4 DEF SignIn, TInv, Stamped

LEMMA FoundTyped ==
    ASSUME TInv, NEW s \in Sessions, NEW found \in Entries,
           Found(s, found), trouble' \in BOOLEAN
    PROVE  TInv'
<1> DEFINE new == [at |-> now, id |-> s]
<1>1. now \in Nat /\ new \in Entries /\ new.at = now /\ new.id = s
  BY TimeFacts, EntryFacts DEF TInv, TypeOK
<1>2. entry' = [entry EXCEPT ![s] = new]
  BY DEF Found
<1> HIDE DEF new
<1>3. SignInTypes' /\ RestTypes' /\ TabTypes'
  BY <1>1, <1>2, TabTypesStay DEF Found, TInv, TypeOK, SignInTypes, RestTypes
<1>4. ASSUME NEW t \in Sessions PROVE StampedOf(t)'
  <2>1. CASE t = s
    BY <1>1, <1>2, <2>1 DEF Found, TInv, TypeOK, Stamped, StampedOf
  <2>2. CASE t # s
    BY <1>1, <1>2, <2>2, StampsStay DEF Found, TInv, TypeOK, Stamped
  <2> QED BY <2>1, <2>2
<1> QED BY <1>3, <1>4 DEF Found, TInv, Stamped, TypeOK, TabTypes, SignInTypes, RestTypes

\* A sign-in arms its session and has nothing else of it.
LEMMA EstablishedStored ==
    ASSUME TInv, NEW s \in Sessions, Established(s)
    PROVE  \E e \in {previous[s], NoEntry} :
              /\ stored' = [stored EXCEPT ![s] = [info |-> e,
                                dismissedFor |-> stored[s].dismissedFor]]
              /\ (previous[s].id # s => e = previous[s])
              /\ stored'[s].info = e /\ stored'[s] \in Copies
              /\ stored'[s].dismissedFor = stored[s].dismissedFor
<1> DEFINE e == IF previous[s].id # s THEN previous[s] ELSE NoEntry
           c == [info |-> e, dismissedFor |-> stored[s].dismissedFor]
<1>1. stored' = [stored EXCEPT ![s].info = e]
  BY DEF Established
<1>2. stored \in [Sessions -> Copies] /\ e \in Entries
  BY NoEntryFacts DEF TInv, TypeOK
<1>3. stored[s] \in [info : Entries, dismissedFor : Time]
  BY <1>2 DEF Copies
<1>4. c \in Copies /\ c.info = e /\ c.dismissedFor = stored[s].dismissedFor
  BY <1>2, <1>3 DEF Copies
<1>5. [stored[s] EXCEPT !.info = e] = c
  BY <1>3
<1>6. stored' = [stored EXCEPT ![s] = c]
  BY <1>1, <1>5
<1>7. stored'[s] = c
  BY <1>2, <1>6
<1>8. e \in {previous[s], NoEntry} /\ (previous[s].id # s => e = previous[s])
  OBVIOUS
<1> HIDE DEF e
<1> QED BY <1>4, <1>6, <1>7, <1>8

LEMMA EstablishedTyped ==
    ASSUME TInv, NEW s \in Sessions, Established(s), trouble' \in BOOLEAN,
           registry' \in {registry, entry[s]}
    PROVE  TInv'
<1>1. PICK c \in Copies : /\ stored' = [stored EXCEPT ![s] = c]
                          /\ c.dismissedFor = stored[s].dismissedFor
  BY EstablishedStored DEF TInv, TypeOK
<1>2. now \in Nat
  BY TimeFacts DEF TInv, TypeOK
<1>3. /\ registry' \in Entries /\ registry'.at <= now
      /\ (registry'.id = NoSession => registry'.at = 0)
  BY SessionsAssumption DEF Established, TInv, TypeOK, Stamped, StampedOf
<1>4. TabTypes'
  <2>1. \A t \in Sessions : stored'[t] \in Copies /\ stored'[t].dismissedFor <= now
    BY <1>1 DEF TInv, TypeOK
  <2>2. stored' \in [Sessions -> Copies]
    BY <1>1 DEF TInv, TypeOK
  <2> QED BY <2>1, <2>2 DEF Established, TInv, TypeOK, TabTypes, tabs
<1>5. SignInTypes' /\ RestTypes'
  BY <1>3, NoEntryFacts DEF Established, TInv, TypeOK, SignInTypes, RestTypes
<1>6. ASSUME NEW t \in Sessions PROVE StampedOf(t)'
  <2>1. CASE t = s
    BY <1>2, <2>1 DEF Established, TInv, TypeOK, Stamped, StampedOf
  <2>2. CASE t # s
    BY <1>2, <2>2, StampsStay DEF Established, TInv, TypeOK, Stamped
  <2> QED BY <2>1, <2>2
<1> QED BY <1>3, <1>4, <1>5, <1>6
        DEF TInv, Stamped, TypeOK, TabTypes, SignInTypes, RestTypes

\* What a tab does leaves the sign-ins alone and gives its variables their types.
LEMMA TabTyped ==
    ASSUME TInv, TabTypes', trouble' \in BOOLEAN,
           UNCHANGED <<now, registry, signIns, overlap>>
    PROVE  TInv'
  BY DEF TInv, TypeOK, TabTypes, Stamped, StampedOf, signIns

LEMMA LoadTyped ==
    ASSUME TInv, NEW q \in Tabs, Load(q) \/ Dismiss(q)
    PROVE  TInv'
<1>1. Begin(q, "loading") \/ Begin(q, "dismissing")
  BY DEF Load, Dismiss
<1>2. notice' \in [Tabs -> Entries]
  BY NoEntryFacts DEF Load, Dismiss, TInv, TypeOK
<1>3. stored[SessionOf[q]] \in Copies /\ stored[SessionOf[q]].dismissedFor <= now
  BY TabsAssumption DEF TInv, TypeOK
<1>4. TabTypes'
  BY <1>1, <1>2, <1>3 DEF Begin, TInv, TypeOK, TabTypes
<1> QED BY <1>1, <1>4, TabTyped DEF Begin, TInv, TypeOK

LEMMA ViewTyped ==
    ASSUME TInv, NEW q \in Tabs, View(q) \/ ViewFails(q)
    PROVE  TInv'
<1>1. PICK n \in {registry, copy[q].info, NoEntry} : Checked(q, n)
  BY DEF View, ViewFails, InfoNotice
<1>2. n \in Entries /\ trouble' \in BOOLEAN
  BY <1>1, NoEntryFacts, CopyFacts DEF View, ViewFails, TInv, TypeOK
<1>3. TabTypes'
  BY <1>1, <1>2 DEF Checked, TInv, TypeOK, TabTypes
<1> QED BY <1>1, <1>2, <1>3, TabTyped DEF Checked

LEMMA AnswerTyped ==
    ASSUME TInv, NEW q \in Tabs,
           AnswerPage(q) \/ AnswerStoring(q) \/ AnswerDismissal(q)
    PROVE  TInv'
<1>1. Answered(q)
  BY DEF AnswerPage, AnswerStoring, AnswerDismissal
<1>2. /\ copy[q] \in Copies /\ copy[q].dismissedFor <= now /\ SessionOf[q] \in Sessions
      /\ now \in Nat /\ notice[q] \in Entries
  BY TabsAssumption, TimeFacts DEF TInv, TypeOK
<1>3. stored' \in {stored, [stored EXCEPT ![SessionOf[q]] = copy[q]]}
  BY DEF AnswerPage, AnswerStoring, AnswerDismissal
<1>4. stored' \in [Sessions -> Copies] /\ \A s \in Sessions : stored'[s].dismissedFor <= now
  BY <1>2, <1>3 DEF TInv, TypeOK
<1>5. /\ copy' \in [Tabs -> Copies] /\ \A p \in Tabs : copy'[p].dismissedFor <= now
      /\ step' \in [Tabs -> {"open", "loading", "checked", "dismissing", "dismissed"}]
  BY <1>1, <1>2, BlankFacts DEF Answered, TInv, TypeOK
<1>6. notice' \in [Tabs -> Entries] /\ dismissed' \in [Sessions -> SUBSET Entries]
  BY <1>2, NoEntryFacts DEF AnswerPage, AnswerStoring, AnswerDismissal, TInv, TypeOK
<1>7. stale' \in [Tabs -> BOOLEAN]
  BY Zenon DEF AnswerPage, AnswerStoring, AnswerDismissal, TInv, TypeOK
<1>8. undone' \in [Sessions -> BOOLEAN]
  BY DEF AnswerPage, AnswerStoring, AnswerDismissal, TInv, TypeOK
<1>9. TabTypes' /\ UNCHANGED <<now, registry, signIns, overlap, trouble>>
  BY <1>1, <1>4, <1>5, <1>6, <1>7, <1>8 DEF Answered, TabTypes
<1> QED BY <1>9, TabTyped DEF TInv, TypeOK

\* The registry's answer to a dismissal, or none: how far the copy is dismissed.
LEMMA ReachedCopy ==
    ASSUME TInv, NEW q \in Tabs, Reach(q) \/ ReachFails(q)
    PROVE  \E at \in Time, c \in Copies :
              /\ Reached(q, at) /\ copy' = [copy EXCEPT ![q] = c] /\ copy'[q] = c
              /\ at <= now /\ (registry # NoEntry => at >= registry.at)
              /\ c.info = NoEntry /\ c.dismissedFor >= at /\ c.dismissedFor <= now
              /\ c.dismissedFor >= copy[q].dismissedFor
              /\ (Reach(q) => at >= registry.at)
<1>1. /\ now \in Time /\ now \in Nat /\ registry.at \in Time /\ registry.at \in Nat
      /\ registry.at <= now /\ copy[q].dismissedFor \in Time
      /\ copy[q].dismissedFor \in Nat /\ copy[q].dismissedFor <= now
  BY TimeFacts, EntryAt, CopyFacts DEF TInv, TypeOK
<1>2. PICK at \in Time : /\ Reached(q, at) /\ at <= now
                         /\ (registry # NoEntry => at >= registry.at)
                         /\ (Reach(q) => at >= registry.at)
  <2>1. LatestAt \in Time /\ LatestAt <= now /\ LatestAt >= registry.at
    BY <1>1 DEF LatestAt
  <2>2. CASE Reach(q)
    BY <1>1, <2>1, <2>2 DEF Reach
  <2>3. CASE ReachFails(q) /\ ~Reach(q)
    BY <1>1, <2>3 DEF ReachFails
  <2> QED BY <2>2, <2>3
<1> DEFINE far == IF at > copy[q].dismissedFor THEN at ELSE copy[q].dismissedFor
           c == [info |-> NoEntry, dismissedFor |-> far]
<1>3. far \in Time /\ far >= at /\ far <= now /\ far >= copy[q].dismissedFor
  <2>1. at \in Nat
    BY TimeFacts
  <2>2. CASE at > copy[q].dismissedFor
    BY <1>1, <1>2, <2>1, <2>2
  <2>3. CASE ~(at > copy[q].dismissedFor)
    BY <1>1, <1>2, <2>1, <2>3
  <2> QED BY <2>2, <2>3
<1>4. copy' = [copy EXCEPT ![q] = c]
  BY <1>2 DEF Reached
<1> HIDE DEF far
<1>5. c \in Copies /\ c.info = NoEntry /\ c.dismissedFor = far
  BY <1>3, NoEntryFacts DEF Copies
<1> HIDE DEF c
<1>6. copy'[q] = c
  BY <1>4 DEF TInv, TypeOK
<1> QED BY <1>2, <1>3, <1>4, <1>5, <1>6

LEMMA ReachTyped ==
    ASSUME TInv, NEW q \in Tabs, Reach(q) \/ ReachFails(q)
    PROVE  TInv'
<1>1. PICK at \in Time, c \in Copies :
              /\ Reached(q, at) /\ copy' = [copy EXCEPT ![q] = c] /\ c.dismissedFor <= now
  BY ReachedCopy
<1>2. trouble' \in BOOLEAN
  BY DEF Reach, ReachFails, TInv, TypeOK
<1>3. TabTypes'
  BY <1>1 DEF Reached, TInv, TypeOK, TabTypes
<1> QED BY <1>1, <1>2, <1>3, TabTyped DEF Reached

LEMMA LeaveTyped ==
    ASSUME TInv, NEW s \in Sessions, SignOut(s) \/ Clear(s) \/ ClearFails(s)
    PROVE  TInv'
<1>1. now \in Nat
  BY TimeFacts DEF TInv, TypeOK
<1>2. CASE SignOut(s)
  <2>1. SignInTypes' /\ RestTypes'
    BY <1>2, TimeFacts, NoEntryFacts DEF SignOut, TInv, TypeOK, SignInTypes, RestTypes
  <2>2. /\ stored' \in [Sessions -> Copies] /\ dismissed' \in [Sessions -> SUBSET Entries]
        /\ undone' \in [Sessions -> BOOLEAN]
        /\ \A t \in Sessions : stored'[t].dismissedFor <= now
    BY <1>1, <1>2, BlankFacts DEF SignOut, TInv, TypeOK
  <2>3. /\ copy' \in [Tabs -> Copies] /\ notice' \in [Tabs -> Entries]
        /\ step' \in [Tabs -> {"open", "loading", "checked", "dismissing", "dismissed"}]
        /\ \A q \in Tabs : copy'[q].dismissedFor <= now
    BY <1>1, <1>2, BlankFacts, NoEntryFacts DEF SignOut, TInv, TypeOK
  <2>4. stale' \in [Tabs -> BOOLEAN]
    BY <1>2, Zenon DEF SignOut, TInv, TypeOK
  <2>5. TabTypes'
    BY <1>2, <2>2, <2>3, <2>4 DEF SignOut, TabTypes
  <2>6. ASSUME NEW t \in Sessions PROVE StampedOf(t)'
    <3>1. CASE t = s
      BY <1>1, <1>2, <3>1, NoEntryFacts DEF SignOut, TInv, TypeOK, Stamped, StampedOf
    <3>2. CASE t # s
      BY <1>1, <1>2, <3>2, StampsStay DEF SignOut, TInv, TypeOK, Stamped
    <3> QED BY <3>1, <3>2
  <2> QED BY <1>2, <2>1, <2>5, <2>6
          DEF SignOut, TInv, Stamped, TypeOK, TabTypes, SignInTypes, RestTypes
<1>3. CASE Clear(s) \/ ClearFails(s)
  <2>1. registry' \in {registry, NoEntry} /\ trouble' \in BOOLEAN /\ Cleared(s)
    BY <1>3 DEF Clear, ClearFails, TInv, TypeOK
  <2>2. /\ registry' \in Entries /\ registry'.at <= now
        /\ (registry'.id = NoSession => registry'.at = 0)
    BY <1>1, <2>1, NoEntryFacts DEF TInv, TypeOK, Stamped
  <2>3. SignInTypes' /\ RestTypes' /\ TabTypes'
    BY <2>1, <2>2, TabTypesStay DEF Cleared, TInv, TypeOK, SignInTypes, RestTypes
  <2>4. ASSUME NEW t \in Sessions PROVE StampedOf(t)'
    <3>1. CASE t = s
      BY <2>1, <3>1 DEF Cleared, TInv, TypeOK, Stamped, StampedOf
    <3>2. CASE t # s
      BY <1>1, <2>1, <3>2, StampsStay DEF Cleared, TInv, TypeOK, Stamped
    <3> QED BY <3>1, <3>2
  <2> QED BY <2>2, <2>3, <2>4 DEF TInv, Stamped, TypeOK, TabTypes, SignInTypes, RestTypes
<1> QED BY <1>2, <1>3

LEMMA ClockTyped ==
    ASSUME TInv, Expire \/ Tick
    PROVE  TInv'
<1>1. now \in Nat /\ registry.at \in Nat
  BY TimeFacts, EntryAt DEF TInv, TypeOK
<1>2. /\ UNCHANGED others /\ trouble' \in BOOLEAN
      /\ registry' \in {registry, NoEntry}
  BY DEF Expire, Tick, TInv, TypeOK
<1>3. now' \in Time /\ now' \in Nat /\ now' >= now
  BY <1>1, NextInstant, TimeFacts DEF Expire, Tick, TInv, TypeOK
<1>4. /\ registry' \in Entries /\ registry'.at <= now'
      /\ (registry'.id = NoSession => registry'.at = 0)
  BY <1>1, <1>2, <1>3, NoEntryFacts DEF TInv, TypeOK, Stamped
<1>5. /\ \A t \in Sessions : stored'[t].dismissedFor <= now'
      /\ \A q \in Tabs : copy'[q].dismissedFor <= now'
  <2>1. ASSUME NEW t \in Sessions PROVE stored'[t].dismissedFor <= now'
    <3>1. stored[t].dismissedFor \in Nat /\ stored[t].dismissedFor <= now
      BY CopyFacts DEF TInv, TypeOK
    <3> QED BY <1>1, <1>2, <1>3, <3>1 DEF others
  <2>2. ASSUME NEW q \in Tabs PROVE copy'[q].dismissedFor <= now'
    <3>1. copy[q].dismissedFor \in Nat /\ copy[q].dismissedFor <= now
      BY CopyFacts DEF TInv, TypeOK
    <3> QED BY <1>1, <1>2, <1>3, <3>1 DEF others, tabs
  <2> QED BY <2>1, <2>2
<1>6. TypeOK'
  BY <1>2, <1>3, <1>4, <1>5 DEF others, signIns, tabs, TInv, TypeOK
<1>7. ASSUME NEW t \in Sessions PROVE StampedOf(t)'
  BY <1>2, <1>3, StampsStay DEF others, signIns, TInv, Stamped
<1> QED BY <1>4, <1>6, <1>7 DEF TInv, Stamped

LEMMA TypesNext ==
    ASSUME TInv, [Next]_vars
    PROVE  TInv'
<1>1. ASSUME NEW s \in Sessions, ReadPrevious(s) \/ ReadPreviousFails(s) PROVE TInv'
  <2>1. registry \in Entries /\ NoEntry \in Entries /\ trouble \in BOOLEAN
    BY NoEntryFacts DEF TInv, TypeOK
  <2> QED BY <1>1, <2>1, FoundTyped DEF ReadPrevious, ReadPreviousFails
<1>2. ASSUME NEW s \in Sessions, Store(s) \/ StoreFails(s) PROVE TInv'
  BY <1>2, EstablishedTyped DEF Store, StoreFails, TInv, TypeOK
<1>3. CASE UNCHANGED vars
  BY <1>3 DEF vars, TInv, TypeOK, Stamped, StampedOf
<1>4. ASSUME NEW q \in Tabs, TabStep(q) PROVE TInv'
  BY <1>4, LoadTyped, ViewTyped, AnswerTyped, ReachTyped DEF TabStep
<1> QED BY <1>1, <1>2, <1>3, <1>4, SignInTyped, LeaveTyped, ClockTyped
        DEF Next, SessionStep

\* Every variable has its type and no stamp is ahead of the clock.
THEOREM TypeCorrect == Spec => [](TypeOK /\ Stamped)
<1>1. TInv /\ [Next]_vars => TInv'
  BY TypesNext
<1>2. TInv => TypeOK /\ Stamped
  BY DEF TInv
<1> QED BY TypesFirst, <1>1, <1>2, PTL DEF Spec

-----------------------------------------------------------------------------
(* Dismissals.                                                             *)

LEMMA DismissalsFirst == Init => DInv
<1> SUFFICES ASSUME Init PROVE DInv
  OBVIOUS
<1>1. Settled(NoEntry)
  BY SessionsAssumption, NoEntryFacts DEF Settled
<1>2. AllSettled
  BY <1>1, BlankFacts DEF Init, AllSettled, SettledOf, SettledIn
<1> QED BY <1>2, BlankFacts DEF Init, DInv, Gone, GoneIn, Covers

\* Nobody signs in twice with one session.
LEMMA PastStays ==
    ASSUME TInv, [Next]_vars, NEW s \in Sessions, pc[s] \in Past
    PROVE  pc'[s] \in Past
<1>1. pc \in [Sessions -> {"new", "reading", "storing", "live", "leaving", "out"}]
  BY DEF TInv, TypeOK
<1>2. ASSUME NEW t \in Sessions, SessionStep(t) PROVE pc'[s] \in Past
  BY <1>1, <1>2 DEF Past, SessionStep, SignIn, ReadPrevious, ReadPreviousFails, Found,
                    Store, StoreFails, Established, SignOut, Clear, ClearFails, Cleared
<1>3. ASSUME NEW q \in Tabs, TabStep(q) PROVE pc' = pc
  BY <1>3 DEF TabStep, Load, Dismiss, Begin, View, ViewFails, Checked, AnswerPage,
              AnswerStoring, AnswerDismissal, Answered, Reach, ReachFails, Reached, signIns
<1>4. Expire \/ Tick \/ UNCHANGED vars => pc' = pc
  BY DEF Expire, Tick, others, signIns, vars
<1> QED BY <1>2, <1>3, <1>4 DEF Next

LEMMA SettledStays ==
    ASSUME TInv, [Next]_vars, NEW e, Settled(e)
    PROVE  e.id \in Sessions => pc'[e.id] \in Past
  BY PastStays DEF Settled

LEMMA NothingSettled == Settled(NoEntry) /\ NoEntry.id \notin Sessions
  BY SessionsAssumption, NoEntryFacts DEF Settled

LEMMA UntouchedSettled ==
    ASSUME TInv, [Next]_vars, NEW t \in Sessions, SettledOf(t),
           UNCHANGED <<previous[t], stored[t], dismissed[t]>>
    PROVE  SettledOf(t)'
  BY SettledStays DEF SettledOf, Settled

LEMMA UntouchedSettledIn ==
    ASSUME TInv, [Next]_vars, NEW q \in Tabs, SettledIn(q),
           UNCHANGED <<copy[q], notice[q]>>
    PROVE  SettledIn(q)'
  BY SettledStays DEF SettledIn, Settled

\* A set that arrives is of a sign-in nobody has been told of.
Unheard(s) == registry' = registry \/ registry' \notin dismissed[s]

LEMMA UntouchedGone ==
    ASSUME TInv, NEW t \in Sessions, Gone(t), Unheard(t),
           UNCHANGED <<pc[t], stored[t], dismissed[t], undone[t]>>
    PROVE  Gone(t)'
  BY DEF Gone, Covers, Unheard

LEMMA UntouchedGoneIn ==
    ASSUME TInv, NEW q \in Tabs, GoneIn(q), Unheard(SessionOf[q]),
           registry' = registry \/ registry' # notice[q] \/ notice[q] = NoEntry,
           pc'[SessionOf[q]] = pc[SessionOf[q]] \/ step[q] = "open",
           UNCHANGED <<step[q], copy[q], notice[q], stale[q], undone[SessionOf[q]],
                       dismissed[SessionOf[q]]>>
    PROVE  GoneIn(q)'
  BY DEF GoneIn, Covers, Unheard

\* A step of a sign-in or of time, that tells and dismisses nothing.
LEMMA QuietSettles ==
    ASSUME TInv, DInv, [Next]_vars, Settled(registry)',
           UNCHANGED <<tabs, dismissed, undone>>,
           \A t \in Sessions : /\ registry' = registry \/ ~Settled(registry') \/ registry' = NoEntry
                               /\ pc'[t] = pc[t] \/ pc[t] # "live"
                               /\ \/ UNCHANGED <<previous[t], stored[t]>>
                                  \/ dismissed[t] = {} /\ SettledOf(t)'
    PROVE  DInv'
<1>1. ASSUME NEW t \in Sessions PROVE SettledOf(t)'
  BY UntouchedSettled DEF DInv, AllSettled
<1>2. ASSUME NEW q \in Tabs PROVE SettledIn(q)'
  BY UntouchedSettledIn DEF DInv, AllSettled, tabs
<1>3. ASSUME NEW t \in Sessions PROVE Unheard(t)
  BY DEF DInv, AllSettled, SettledOf, Gone, Unheard
<1>4. ASSUME NEW t \in Sessions PROVE Gone(t)'
  <2>1. Gone(t) /\ Unheard(t)
    BY <1>3 DEF DInv
  <2> QED BY <2>1 DEF Gone, Covers, Unheard
<1>5. ASSUME NEW q \in Tabs PROVE GoneIn(q)'
  <2>1. SessionOf[q] \in Sessions
    BY TabsAssumption
  <2>2. Unheard(SessionOf[q])
    BY <1>3, <2>1
  <2>3. GoneIn(q) /\ Settled(notice[q])
    BY DEF DInv, AllSettled, SettledIn
  <2>4. registry' = registry \/ registry' # notice[q] \/ notice[q] = NoEntry
    BY <2>1, <2>3
  <2>5. pc'[SessionOf[q]] = pc[SessionOf[q]] \/ step[q] = "open"
    BY <2>1, <2>3 DEF GoneIn
  <2> QED BY <2>2, <2>3, <2>4, <2>5, UntouchedGoneIn DEF tabs
<1> QED BY <1>1, <1>2, <1>4, <1>5 DEF DInv, AllSettled

LEMMA SignInSettles ==
    ASSUME TInv, DInv, [Next]_vars, NEW s \in Sessions, SignIn(s)
    PROVE  DInv'
<1>1. /\ \A t \in Sessions : /\ pc'[t] = pc[t] \/ pc[t] # "live"
                             /\ UNCHANGED <<previous[t], stored[t]>>
      /\ UNCHANGED <<registry, tabs, dismissed, undone>>
  BY DEF SignIn, TInv, TypeOK
<1>2. Settled(registry)'
  BY <1>1, SettledStays DEF DInv, AllSettled, Settled
<1> QED BY <1>1, <1>2, QuietSettles

LEMMA FoundSettles ==
    ASSUME TInv, DInv, [Next]_vars, NEW s \in Sessions, NEW found,
           found = registry \/ found = NoEntry, Found(s, found)
    PROVE  DInv'
<1>1. Settled(found)
  BY NothingSettled DEF DInv, AllSettled
<1>2. previous'[s] = found /\ pc[s] = "reading"
  BY DEF Found, TInv, TypeOK
<1>3. SettledOf(s)'
  BY <1>1, <1>2, SettledStays DEF Found, DInv, AllSettled, SettledOf, Settled
<1>4. dismissed[s] = {}
  BY <1>2 DEF DInv, Gone
<1>5. /\ \A t \in Sessions : /\ pc'[t] = pc[t] \/ pc[t] # "live"
                             /\ t # s => UNCHANGED <<previous[t], stored[t]>>
      /\ UNCHANGED <<registry, tabs, dismissed, undone>>
  BY DEF Found, TInv, TypeOK
<1>6. Settled(registry)'
  BY <1>5, SettledStays DEF DInv, AllSettled, Settled
<1> QED BY <1>3, <1>4, <1>5, <1>6, QuietSettles

\* The entry of a sign-in that has not tried to set it is nobody's notice.
LEMMA EstablishedSettles ==
    ASSUME TInv, DInv, [Next]_vars, NEW s \in Sessions, Established(s),
           registry' \in {registry, entry[s]}
    PROVE  DInv'
<1>1. pc[s] = "storing" /\ pc'[s] = "live" /\ entry[s].id = s
  BY DEF Established, TInv, TypeOK, Stamped, StampedOf
<1>2. Settled(registry)'
  BY <1>1, SettledStays DEF DInv, AllSettled, Settled, Past
<1>3. \A e : e = entry[s] => ~Settled(e)
  BY <1>1 DEF Settled, Past
<1>4. PICK e \in {previous[s], NoEntry} : stored'[s].info = e
  BY EstablishedStored
<1>5. dismissed[s] = {}
  BY <1>1 DEF DInv, Gone
<1>6. /\ \A t \in Sessions : /\ pc'[t] = pc[t] \/ pc[t] # "live"
                             /\ t # s => UNCHANGED <<previous[t], stored[t]>>
      /\ UNCHANGED <<tabs, dismissed, undone>>
      /\ previous'[s] = NoEntry
  BY <1>1 DEF Established, TInv, TypeOK
<1>7. SettledOf(s)'
  <2>1. Settled(e) /\ Settled(NoEntry)
    BY <1>4, NothingSettled DEF DInv, AllSettled, SettledOf
  <2> QED BY <1>4, <1>5, <1>6, <2>1, SettledStays DEF SettledOf, Settled
<1>8. registry' = registry \/ ~Settled(registry')
  BY <1>3
<1> QED BY <1>2, <1>5, <1>6, <1>7, <1>8, QuietSettles

\* The entry dropped, or time passed.
LEMMA OthersSettle ==
    ASSUME TInv, DInv, [Next]_vars, registry' \in {registry, NoEntry},
           UNCHANGED <<previous, stored, tabs, dismissed, undone>>,
           \A t \in Sessions : pc'[t] = pc[t] \/ pc[t] # "live"
    PROVE  DInv'
<1>1. Settled(registry)'
  BY SettledStays, NothingSettled DEF DInv, AllSettled, Settled
<1> QED BY <1>1, QuietSettles

LEMMA SignOutSettles ==
    ASSUME TInv, DInv, [Next]_vars, NEW s \in Sessions, SignOut(s)
    PROVE  DInv'
<1>1. Settled(registry)'
  BY SettledStays DEF SignOut, DInv, AllSettled, Settled
<1>2. ASSUME NEW t \in Sessions PROVE SettledOf(t)' /\ Gone(t)'
  <2>1. CASE t = s
    <3>1. /\ stored'[t] = Blank /\ dismissed'[t] = {} /\ undone'[t] = FALSE
          /\ UNCHANGED <<previous[t]>>
      BY <2>1 DEF SignOut, TInv, TypeOK
    <3>2. SettledOf(t)'
      BY <3>1, SettledStays, NothingSettled, BlankFacts
         DEF DInv, AllSettled, SettledOf, Settled
    <3> QED BY <3>1, <3>2 DEF Gone, Covers
  <2>2. CASE t # s
    <3>1. UNCHANGED <<registry, pc[t], previous[t], stored[t], dismissed[t], undone[t]>>
      BY <2>2 DEF SignOut, TInv, TypeOK
    <3> QED BY <3>1, UntouchedSettled, UntouchedGone DEF DInv, AllSettled, Unheard
  <2> QED BY <2>1, <2>2
<1>3. ASSUME NEW q \in Tabs PROVE SettledIn(q)' /\ GoneIn(q)'
  <2>0. SessionOf[q] \in Sessions
    BY TabsAssumption
  <2>1. CASE SessionOf[q] = s
    <3>1. copy'[q] = Blank /\ notice'[q] = NoEntry /\ step'[q] = "open"
      BY <2>1 DEF SignOut
    <3> QED BY <3>1, NothingSettled, BlankFacts DEF SettledIn, Settled, GoneIn
  <2>2. CASE SessionOf[q] # s
    <3>1. UNCHANGED <<copy[q], notice[q], step[q]>> /\ (stale'[q] = stale[q])
      BY <2>2 DEF SignOut, TInv, TypeOK
    <3>2. UNCHANGED <<registry, pc[SessionOf[q]], undone[SessionOf[q]],
                      dismissed[SessionOf[q]]>>
      BY <2>0, <2>2 DEF SignOut, TInv, TypeOK
    <3> QED BY <2>0, <3>1, <3>2, UntouchedSettledIn, UntouchedGoneIn
            DEF DInv, AllSettled, Unheard
  <2> QED BY <2>1, <2>2
<1> QED BY <1>1, <1>2, <1>3 DEF DInv, AllSettled

\* A step of a tab: the sessions' own part of it, and the tab's.
LEMMA TabStepSettles ==
    ASSUME TInv, DInv, [Next]_vars, NEW q \in Tabs, UNCHANGED <<registry, signIns>>,
           \A t \in Sessions \ {SessionOf[q]} :
              UNCHANGED <<stored[t], dismissed[t], undone[t]>>,
           \A p \in Tabs \ {q} :
              /\ UNCHANGED <<step[p], copy[p], notice[p]>>
              /\ SessionOf[p] # SessionOf[q] => UNCHANGED <<stale[p]>>
              /\ SessionOf[p] = SessionOf[q] => GoneIn(p)',
           SettledOf(SessionOf[q])', Gone(SessionOf[q])', SettledIn(q)', GoneIn(q)'
    PROVE  DInv'
<1>1. Settled(registry)'
  BY SettledStays DEF DInv, AllSettled, Settled
<1>2. UNCHANGED <<pc, previous>>
  BY DEF signIns
<1>3. ASSUME NEW t \in Sessions PROVE SettledOf(t)' /\ Gone(t)'
  <2>1. CASE t = SessionOf[q]
    BY <2>1
  <2>2. CASE t # SessionOf[q]
    BY <1>2, <2>2, UntouchedSettled, UntouchedGone DEF DInv, AllSettled, Unheard
  <2> QED BY <2>1, <2>2
<1>4. ASSUME NEW p \in Tabs PROVE SettledIn(p)' /\ GoneIn(p)'
  <2>1. CASE p = q
    BY <2>1
  <2>2. CASE p # q
    <3>1. SessionOf[p] \in Sessions
      BY TabsAssumption
    <3>2. SettledIn(p)'
      BY <2>2, UntouchedSettledIn DEF DInv, AllSettled
    <3>3. CASE SessionOf[p] = SessionOf[q]
      BY <2>2, <3>2, <3>3
    <3>4. CASE SessionOf[p] # SessionOf[q]
      BY <1>2, <2>2, <3>1, <3>2, <3>4, UntouchedGoneIn DEF DInv, Unheard
    <3> QED BY <3>3, <3>4
  <2> QED BY <2>1, <2>2
<1> QED BY <1>1, <1>3, <1>4 DEF DInv, AllSettled

\* One that stores and dismisses nothing.
LEMMA QuietTabSettles ==
    ASSUME TInv, DInv, [Next]_vars, NEW q \in Tabs,
           UNCHANGED <<registry, signIns, stored, dismissed, undone>>,
           \A p \in Tabs \ {q} : UNCHANGED <<step[p], copy[p], notice[p], stale[p]>>,
           SettledIn(q)', GoneIn(q)'
    PROVE  DInv'
<1>1. SessionOf[q] \in Sessions
  BY TabsAssumption
<1>2. SettledOf(SessionOf[q])' /\ Gone(SessionOf[q])'
  BY <1>1, UntouchedSettled, UntouchedGone DEF signIns, DInv, AllSettled, Unheard
<1>3. ASSUME NEW p \in Tabs \ {q} PROVE GoneIn(p)'
  BY TabsAssumption, UntouchedGoneIn DEF signIns, DInv, Unheard
<1> QED BY <1>2, <1>3, TabStepSettles

LEMMA LoadSettles ==
    ASSUME TInv, DInv, [Next]_vars, NEW q \in Tabs, Load(q) \/ Dismiss(q)
    PROVE  DInv'
<1> DEFINE s == SessionOf[q]
<1>1. /\ s \in Sessions /\ pc[s] = "live" /\ copy'[q] = stored[s]
      /\ step'[q] \in {"loading", "dismissing"}
      /\ UNCHANGED <<registry, signIns, stored, dismissed, undone, stale>>
      /\ \A p \in Tabs \ {q} : UNCHANGED <<step[p], copy[p], notice[p]>>
  BY TabsAssumption DEF Load, Dismiss, Begin, TInv, TypeOK
<1>2. /\ notice'[q] \in {NoEntry, notice[q]}
      /\ step'[q] = "dismissing" => notice'[q] # NoEntry
  BY DEF Load, Dismiss, Begin, TInv, TypeOK
<1> HIDE DEF s
<1>3. Settled(stored[s].info) /\ Settled(notice[q])
  BY <1>1 DEF DInv, AllSettled, SettledOf, SettledIn
<1>4. SettledIn(q)'
  BY <1>1, <1>2, <1>3, SettledStays, NothingSettled DEF SettledIn, Settled
<1>5. Gone(s)
  BY <1>1 DEF DInv
<1>6. GoneIn(q)'
  BY <1>1, <1>2, <1>5 DEF s, GoneIn, Gone, Covers, signIns
<1> QED BY <1>1, <1>4, <1>6, QuietTabSettles DEF signIns

LEMMA ViewSettles ==
    ASSUME TInv, DInv, [Next]_vars, NEW q \in Tabs, View(q) \/ ViewFails(q)
    PROVE  DInv'
<1> DEFINE s == SessionOf[q]
           c == copy[q]
<1>1. PICK e : /\ Checked(q, e)
               /\ \/ e = registry /\ AlertDue(s, c)
                  \/ e = c.info /\ InfoDue(c)
                  \/ e = NoEntry
  BY DEF View, ViewFails, InfoNotice
<1>2. /\ s \in Sessions /\ step[q] = "loading" /\ step'[q] = "checked" /\ notice'[q] = e
      /\ UNCHANGED <<registry, signIns, stored, dismissed, undone, stale, copy>>
      /\ \A p \in Tabs \ {q} : UNCHANGED <<step[p], notice[p]>>
  BY <1>1, TabsAssumption DEF Checked, TInv, TypeOK
<1>3. Settled(e) /\ Settled(c.info)
  BY <1>1, NothingSettled DEF DInv, AllSettled, SettledIn
<1>4. SettledIn(q)'
  BY <1>2, <1>3, SettledStays DEF SettledIn, Settled
<1>5. GoneIn(q) /\ Gone(s)
  BY <1>2 DEF DInv
<1>6. ASSUME ~stale[q], ~undone[s] PROVE e \notin dismissed[s]
  <2>1. c.dismissedFor \in Nat /\ registry.at \in Nat /\ c.info.at \in Nat
    BY EntryAt, CopyFacts DEF TInv, TypeOK
  <2>2. Covers(s, c)
    BY <1>2, <1>5, <1>6 DEF GoneIn
  <2>3. CASE e = registry /\ AlertDue(s, c)
    BY <2>1, <2>2, <2>3 DEF AlertDue, Covers
  <2>4. CASE e = c.info /\ InfoDue(c)
    <3>1. c.info # NoEntry
      BY <2>1, <2>4, NoEntryFacts DEF InfoDue
    <3> QED BY <2>2, <2>4, <3>1 DEF Covers
  <2> QED BY <1>1, <1>5, <2>3, <2>4 DEF Gone
<1> HIDE DEF s, c
<1>7. GoneIn(q)'
  BY <1>2, <1>5, <1>6 DEF s, GoneIn, Covers, signIns
<1> QED BY <1>2, <1>4, <1>7, QuietTabSettles

LEMMA ReachSettles ==
    ASSUME TInv, DInv, [Next]_vars, NEW q \in Tabs, Reach(q) \/ ReachFails(q)
    PROVE  DInv'
<1> DEFINE s == SessionOf[q]
<1>1. PICK at \in Time, c \in Copies :
              /\ Reached(q, at) /\ copy' = [copy EXCEPT ![q] = c] /\ copy'[q] = c
              /\ (registry # NoEntry => at >= registry.at)
              /\ c.info = NoEntry /\ c.dismissedFor >= at
  BY ReachedCopy
<1>2. /\ s \in Sessions /\ step[q] = "dismissing" /\ step'[q] = "dismissed"
      /\ UNCHANGED <<registry, signIns, stored, dismissed, undone, stale, notice>>
      /\ \A p \in Tabs \ {q} : UNCHANGED <<step[p], copy[p]>>
  BY <1>1, TabsAssumption DEF Reached, TInv, TypeOK
<1>3. SettledIn(q)'
  BY <1>1, <1>2, SettledStays, NothingSettled DEF DInv, AllSettled, SettledIn, Settled
<1>4. at \in Nat /\ registry.at \in Nat /\ c.dismissedFor \in Nat
  BY TimeFacts, EntryAt, CopyFacts DEF TInv, TypeOK
<1>5. registry # NoEntry => registry.at <= c.dismissedFor
  BY <1>1, <1>4
<1>6. GoneIn(q) /\ Gone(s)
  BY <1>2 DEF DInv
<1> HIDE DEF s
<1>7. Covers(s, c) /\ notice[q] # NoEntry
  BY <1>1, <1>2, <1>5, <1>6 DEF Covers, Gone, GoneIn
<1>8. GoneIn(q)'
  BY <1>1, <1>2, <1>5, <1>6, <1>7 DEF s, GoneIn, Covers, signIns
<1> QED BY <1>2, <1>3, <1>8, QuietTabSettles

\* A page that is answered: stored whole, its copy has what was dismissed, unless
\* it is out of date.
LEMMA AnswerSettles ==
    ASSUME TInv, DInv, [Next]_vars, NEW q \in Tabs, AnswerPage(q) \/ AnswerStoring(q)
    PROVE  DInv'
<1> DEFINE s == SessionOf[q]
<1>1. /\ s \in Sessions /\ step[q] = "checked" /\ step'[q] = "open" /\ copy'[q] = Blank
      /\ UNCHANGED <<registry, signIns, dismissed, notice>>
      /\ \A p \in Tabs \ {q} : UNCHANGED <<step[p], copy[p], stale[p]>>
      /\ \A t \in Sessions \ {s} : UNCHANGED <<stored[t], undone[t]>>
  BY TabsAssumption DEF AnswerPage, AnswerStoring, Answered, TInv, TypeOK
<1>2. /\ stored'[s] \in {stored[s], copy[q]}
      /\ undone'[s] \/ (~undone[s] /\ (stored'[s] = stored[s] \/ ~stale[q]))
         \/ (stored'[s] = stored[s] /\ undone'[s] = undone[s])
      /\ undone[s] => undone'[s]
  BY <1>1 DEF AnswerPage, AnswerStoring, TInv, TypeOK
<1>3. /\ Gone(s) /\ GoneIn(q) /\ SettledOf(s) /\ SettledIn(q) /\ UNCHANGED <<pc, previous>>
  BY <1>1 DEF DInv, AllSettled, signIns
<1> HIDE DEF s
<1>4. SettledIn(q)' /\ GoneIn(q)'
  BY <1>1, <1>3, SettledStays, NothingSettled, BlankFacts DEF SettledIn, Settled, GoneIn
<1>5. SettledOf(s)'
  BY <1>1, <1>2, <1>3, SettledStays DEF SettledOf, SettledIn, Settled
<1>6. Gone(s)'
  <2>1. ASSUME ~undone'[s] PROVE ~undone[s] /\ (stored'[s] = stored[s] \/ ~stale[q])
    BY <1>2, <2>1
  <2>2. ASSUME ~undone'[s] PROVE Covers(s, stored'[s])
    <3>1. CASE stored'[s] = stored[s]
      BY <1>3, <2>1, <2>2, <3>1 DEF Gone
    <3>2. CASE stored'[s] = copy[q] /\ ~stale[q]
      BY <1>1, <1>3, <2>1, <2>2, <3>2 DEF s, GoneIn
    <3> QED BY <1>2, <2>1, <2>2, <3>1, <3>2
  <2>3. ~undone'[s] => Covers(s, stored[s])'
    BY <1>1, <2>2 DEF Covers
  <2> QED BY <1>1, <1>3, <2>3 DEF Gone
<1>7. ASSUME NEW p \in Tabs \ {q}, SessionOf[p] = s PROVE GoneIn(p)'
  <2>1. GoneIn(p)
    BY DEF DInv
  <2> QED BY <1>1, <1>2, <1>3, <1>7, <2>1 DEF GoneIn, Covers
<1> QED BY <1>1, <1>4, <1>5, <1>6, <1>7, TabStepSettles DEF s

\* A dismissal that is answered: what it stores has all of them, and what the
\* other requests of the session hold is out of date.
LEMMA AnswerDismissalSettles ==
    ASSUME TInv, DInv, [Next]_vars, NEW q \in Tabs, AnswerDismissal(q)
    PROVE  DInv'
<1> DEFINE s == SessionOf[q]
<1>1. /\ s \in Sessions /\ step[q] = "dismissed" /\ step'[q] = "open" /\ copy'[q] = Blank
      /\ notice'[q] = NoEntry /\ stored'[s] = copy[q]
      /\ dismissed'[s] = dismissed[s] \cup {notice[q]}
      /\ UNCHANGED <<registry, signIns>>
      /\ \A p \in Tabs \ {q} : UNCHANGED <<step[p], copy[p], notice[p]>>
      /\ \A t \in Sessions \ {s} : UNCHANGED <<stored[t], undone[t], dismissed[t]>>
  BY TabsAssumption DEF AnswerDismissal, Answered, TInv, TypeOK
<1>2. undone'[s] = stale[q]
  BY <1>1 DEF AnswerDismissal, TInv, TypeOK
<1>3. \A p \in Tabs \ {q} : /\ SessionOf[p] # s => stale'[p] = stale[p]
                            /\ SessionOf[p] = s /\ step[p] # "open" => stale'[p]
  <2>1. stale' = [p \in Tabs |-> p # q /\ (stale[p] \/ (SessionOf[p] = s /\ step[p] # "open"))]
    BY DEF AnswerDismissal
  <2>2. \A p \in Tabs : stale[p] \in BOOLEAN
    BY DEF TInv, TypeOK
  <2> HIDE DEF s
  <2> QED BY <2>1, <2>2, Zenon
<1>4. /\ Gone(s) /\ GoneIn(q) /\ SettledOf(s) /\ SettledIn(q) /\ UNCHANGED <<pc, previous>>
  BY <1>1 DEF DInv, AllSettled, signIns
<1> HIDE DEF s
<1>5. SettledIn(q)' /\ GoneIn(q)'
  BY <1>1, SettledStays, NothingSettled, BlankFacts DEF SettledIn, Settled, GoneIn
<1>6. SettledOf(s)'
  BY <1>1, <1>4, SettledStays DEF SettledOf, SettledIn, Settled
<1>7. Gone(s)'
  <2>1. ~stale[q] => Covers(s, copy[q])
    BY <1>1, <1>4 DEF s, GoneIn
  <2>2. /\ copy[q].info = NoEntry /\ notice[q] # NoEntry
        /\ notice[q].at <= copy[q].dismissedFor \/ notice[q] # registry
        /\ pc[s] = "live"
    BY <1>1, <1>4 DEF s, GoneIn
  <2>3. ~undone'[s] => Covers(s, stored[s])'
    BY <1>1, <1>2, <2>1, <2>2 DEF Covers
  <2> QED BY <1>1, <1>4, <2>2, <2>3 DEF Gone
<1>8. ASSUME NEW p \in Tabs \ {q}, SessionOf[p] = s PROVE GoneIn(p)'
  <2>1. GoneIn(p)
    BY DEF DInv
  <2> QED BY <1>1, <1>3, <1>4, <1>8, <2>1 DEF GoneIn
<1> QED BY <1>1, <1>3, <1>5, <1>6, <1>7, <1>8, TabStepSettles DEF s

LEMMA DismissalsNext ==
    ASSUME TInv, DInv, [Next]_vars
    PROVE  DInv'
<1>1. ASSUME NEW s \in Sessions, ReadPrevious(s) \/ ReadPreviousFails(s) PROVE DInv'
  BY <1>1, FoundSettles DEF ReadPrevious, ReadPreviousFails
<1>2. ASSUME NEW s \in Sessions, Store(s) \/ StoreFails(s) PROVE DInv'
  BY <1>2, EstablishedSettles DEF Store, StoreFails
<1>3. ASSUME NEW s \in Sessions, Clear(s) \/ ClearFails(s) PROVE DInv'
  <2>1. registry' \in {registry, NoEntry} /\ Cleared(s)
    BY <1>3 DEF Clear, ClearFails
  <2> QED BY <2>1, OthersSettle DEF Cleared, TInv, TypeOK
<1>4. CASE Expire \/ Tick \/ UNCHANGED vars
  <2>1. registry' \in {registry, NoEntry}
        /\ UNCHANGED <<pc, previous, stored, tabs, dismissed, undone>>
    BY <1>4 DEF Expire, Tick, others, signIns, tabs, vars
  <2> QED BY <2>1, OthersSettle
<1>5. ASSUME NEW q \in Tabs, TabStep(q) PROVE DInv'
  BY <1>5, LoadSettles, ViewSettles, ReachSettles, AnswerSettles, AnswerDismissalSettles
     DEF TabStep
<1> QED BY <1>1, <1>2, <1>3, <1>4, <1>5, SignInSettles, SignOutSettles
        DEF Next, SessionStep

\* A dismissed notice stays gone, whatever the order in which the registry's
\* entries of overlapping sign-ins are set, dropped or lost, and however many
\* requests of the session overlap: unless one that loaded the session before
\* the dismissal stores what it loaded after it.
THEOREM DismissedForGood == Spec => []DismissedStaysGone
<1>1. TInv /\ DInv /\ [Next]_vars => TInv' /\ DInv'
  BY TypesNext, DismissalsNext
<1>2. DInv => DismissedStaysGone
  BY DEF DInv, GoneIn, DismissedStaysGone
<1> QED BY TypesFirst, DismissalsFirst, <1>1, <1>2, PTL DEF Spec

-----------------------------------------------------------------------------
(* Notices.                                                                *)

LEMMA Numbers ==
    ASSUME TInv
    PROVE  /\ now \in Nat /\ registry.at \in Nat /\ registry.at <= now
           /\ \A s \in Sessions :
                 /\ loginAt[s] \in Nat /\ entry[s].at \in Nat
                 /\ previous[s].at \in Nat /\ stored[s].info.at \in Nat
                 /\ stored[s].dismissedFor \in Nat /\ entry[s].at <= now
                 /\ pc[s] \in {"storing", "live"} =>
                       entry[s].id = s /\ loginAt[s] <= entry[s].at
           /\ \A q \in Tabs : copy[q].info.at \in Nat /\ copy[q].dismissedFor \in Nat
  BY TimeFacts, EntryAt, CopyFacts DEF TInv, TypeOK, Stamped, StampedOf

LEMMA NoticesFirst == Init => AInv /\ BInv
  BY DEF Init, AInv, BInv, Apart, Latest, Finds, FindsIn, SigningIn

\* A step that stamps nobody and sets no entry.
LEMMA ApartStays ==
    ASSUME TInv, AInv, overlap' = overlap,
           \A t \in Sessions : \/ UNCHANGED <<pc[t], loginAt[t], entry[t]>>
                                \/ pc'[t] \notin {"reading", "storing", "live"}
    PROVE  AInv'
  BY DEF AInv, Apart, SigningIn

\* A tab signs nobody in or out.
LEMMA TabStepFrame ==
    ASSUME NEW q \in Tabs, TabStep(q)
    PROVE  /\ UNCHANGED <<registry, signIns, overlap>>
           /\ \A p \in Tabs \ {q} : TInv => UNCHANGED <<step[p], copy[p]>>
  BY DEF TabStep, Load, Dismiss, Begin, View, ViewFails, Checked, AnswerPage,
         AnswerStoring, AnswerDismissal, Answered, Reach, ReachFails, Reached,
         TInv, TypeOK

LEMMA ApartNext ==
    ASSUME TInv, AInv, [Next]_vars
    PROVE  AInv'
<1>1. ASSUME NEW s \in Sessions, SignIn(s) PROVE AInv'
  <2>1. SUFFICES ASSUME ~overlap', NEW t \in Sessions, NEW u \in Sessions
                 PROVE  Apart(t, u)'
    BY DEF AInv
  <2>2. ~overlap /\ \A v \in Sessions : ~SigningIn(v)
    BY <1>1, <2>1 DEF SignIn
  <2>3. /\ pc' = [pc EXCEPT ![s] = "reading"] /\ entry' = entry
        /\ loginAt' = [loginAt EXCEPT ![s] = now] /\ pc[s] = "new"
    BY <1>1 DEF SignIn
  <2> QED BY <2>2, <2>3, Numbers DEF Apart, SigningIn, TInv, TypeOK
<1>2. ASSUME NEW s \in Sessions, NEW found, Found(s, found) PROVE AInv'
  BY <1>2 DEF Found, AInv, Apart, SigningIn, TInv, TypeOK
<1>3. ASSUME NEW s \in Sessions, Established(s) PROVE AInv'
  <2>1. SUFFICES ASSUME ~overlap', NEW t \in Sessions, NEW u \in Sessions
                 PROVE  Apart(t, u)'
    BY DEF AInv
  <2>2. /\ pc' = [pc EXCEPT ![s] = "live"] /\ pc[s] = "storing"
        /\ UNCHANGED <<loginAt, entry, overlap>>
    BY <1>3 DEF Established
  <2> QED BY <2>1, <2>2 DEF AInv, Apart, SigningIn, TInv, TypeOK
<1>4. ASSUME NEW q \in Tabs, TabStep(q) PROVE AInv'
  BY <1>4, TabStepFrame, ApartStays DEF signIns
<1>5. ASSUME NEW s \in Sessions, SignOut(s) \/ Clear(s) \/ ClearFails(s)
      PROVE  AInv'
  BY <1>5, ApartStays DEF SignOut, Clear, ClearFails, Cleared, TInv, TypeOK
<1>6. CASE Expire \/ Tick \/ UNCHANGED vars
  BY <1>6, ApartStays DEF Expire, Tick, others, signIns, vars
<1> QED BY <1>1, <1>2, <1>3, <1>4, <1>5, <1>6
        DEF Next, SessionStep, ReadPrevious, ReadPreviousFails, Store, StoreFails

\* Nobody has signed in, been armed with anything or dismissed anything.
LEMMA NoticesStay ==
    ASSUME TInv, BInv, overlap' = overlap, trouble' = trouble, registry' = registry,
           \A t \in Sessions :
              \/ UNCHANGED <<pc[t], loginAt[t], entry[t], previous[t], stored[t]>>
              \/ pc'[t] \notin {"storing", "live"},
           \A q \in Tabs :
              \/ UNCHANGED <<step[q], copy[q], loginAt[SessionOf[q]]>>
              \/ step'[q] = "open"
    PROVE  BInv'
<1>1. SUFFICES ASSUME ~overlap', ~trouble', NEW s \in Sessions
               PROVE  /\ Latest(s)'
                      /\ \A t \in Sessions : Finds(s, t)'
                      /\ \A q \in Tabs : FindsIn(s, q)'
  BY DEF BInv
<1>2. Latest(s)'
  BY <1>1 DEF BInv, Latest
<1>3. \A t \in Sessions : Finds(s, t)'
  BY <1>1 DEF BInv, Finds, Armed
<1>4. \A q \in Tabs : FindsIn(s, q)'
  BY <1>1 DEF BInv, FindsIn, Armed
<1> QED BY <1>2, <1>3, <1>4

\* A request under way is one of a live session.
LEMMA RequestsLive ==
    ASSUME DInv, NEW q \in Tabs, step[q] # "open"
    PROVE  SessionOf[q] \in Sessions /\ pc[SessionOf[q]] = "live"
  BY TabsAssumption DEF DInv, GoneIn

LEMMA FoundNotices ==
    ASSUME TInv, DInv, BInv, NEW s \in Sessions, ReadPrevious(s)
    PROVE  BInv'
<1>1. SUFFICES ASSUME ~overlap', ~trouble', NEW t \in Sessions
               PROVE  /\ Latest(t)'
                      /\ \A u \in Sessions : Finds(t, u)'
                      /\ \A q \in Tabs : FindsIn(t, q)'
  BY DEF BInv
<1>2. /\ Latest(t) /\ \A u \in Sessions : Finds(t, u)
      /\ \A q \in Tabs : FindsIn(t, q)
      /\ pc' = [pc EXCEPT ![s] = "storing"] /\ previous' = [previous EXCEPT ![s] = registry]
      /\ UNCHANGED <<registry, loginAt, stored, tabs>>
      /\ \A v \in Sessions \ {s} : entry'[v] = entry[v]
  BY <1>1 DEF ReadPrevious, Found, BInv, TInv, TypeOK
<1>3. Latest(t)' /\ \A u \in Sessions : Finds(t, u)'
  BY <1>2 DEF Latest, Finds, Armed, TInv, TypeOK
<1>4. \A q \in Tabs : FindsIn(t, q)'
  BY <1>2 DEF FindsIn, Armed, tabs, TInv, TypeOK
<1> QED BY <1>3, <1>4

LEMMA StoreNotices ==
    ASSUME TInv, DInv, AInv, BInv, NEW s \in Sessions, Store(s)
    PROVE  BInv'
<1>1. SUFFICES ASSUME ~overlap', ~trouble' PROVE BInv'
  BY DEF BInv
<1>2. /\ ~overlap /\ ~trouble /\ pc[s] = "storing" /\ registry' = entry[s]
      /\ pc' = [pc EXCEPT ![s] = "live"] /\ UNCHANGED <<loginAt, entry, tabs>>
  BY <1>1 DEF Store, Established
<1>3. /\ \A t \in Sessions : Latest(t)
      /\ \A t, u \in Sessions : Finds(t, u) /\ Apart(t, u)
      /\ \A t \in Sessions, q \in Tabs : FindsIn(t, q)
  BY <1>2 DEF AInv, BInv
<1>4. /\ stored'[s].info = previous[s]
      /\ \A t \in Sessions \ {s} : stored'[t] = stored[t] /\ previous'[t] = previous[t]
  <2>1. previous[s].id # s
    BY <1>2 DEF DInv, AllSettled, SettledOf, Settled, Past
  <2>2. Established(s)
    BY DEF Store
  <2>3. /\ stored'[s].info = previous[s]
        /\ \A t \in Sessions \ {s} : stored'[t] = stored[t]
    BY <2>1, <2>2, EstablishedStored DEF TInv, TypeOK
  <2> QED BY <2>2, <2>3 DEF Established, TInv, TypeOK
<1>5. \A t \in Sessions \ {s} : pc'[t] = pc[t]
  BY <1>2 DEF TInv, TypeOK
<1>6. \A t \in Sessions : /\ pc[t] = "live" => t # s /\ entry[t].at <= loginAt[s]
                          /\ pc[t] = "storing" => t = s
  BY <1>2, <1>3 DEF Apart, SigningIn
<1>7. loginAt[s] <= entry[s].at /\ entry[s].id = s /\ pc'[s] = "live"
  BY <1>2, Numbers DEF TInv, TypeOK
<1>8. ASSUME NEW t \in Sessions PROVE Latest(t)'
  <2>1. entry[t].at \in Nat /\ entry[s].at \in Nat /\ loginAt[s] \in Nat
    BY Numbers
  <2>2. CASE t = s
    BY <1>2, <2>1, <2>2 DEF Latest
  <2>3. CASE t # s
    BY <1>2, <1>5, <1>6, <1>7, <2>1, <2>3 DEF Latest
  <2> QED BY <2>2, <2>3
<1>9. ASSUME NEW t \in Sessions, NEW u \in Sessions PROVE Finds(t, u)'
  <2>1. pc'[u] # "storing"
    BY <1>5, <1>6, <1>7
  <2>2. /\ entry[t].at \in Nat /\ entry[s].at \in Nat /\ loginAt[s] \in Nat
        /\ entry[u].at \in Nat /\ loginAt[u] \in Nat
        /\ (pc[u] = "live" => loginAt[u] <= entry[u].at)
    BY Numbers
  <2>3. CASE t = s
    <3>1. pc'[u] = "live" => entry[t].at >= loginAt[u]
      BY <1>5, <1>6, <1>7, <2>2, <2>3
    <3> QED BY <1>2, <2>1, <2>2, <3>1 DEF Finds, Armed
  <2>4. CASE t # s /\ u = s
    BY <1>2, <1>3, <1>4, <1>5, <2>1, <2>4 DEF Finds, Armed
  <2>5. CASE t # s /\ u # s
    BY <1>2, <1>3, <1>4, <1>5, <2>1, <2>5 DEF Finds, Armed
  <2> QED BY <2>3, <2>4, <2>5
<1>10. ASSUME NEW t \in Sessions, NEW q \in Tabs PROVE FindsIn(t, q)'
  <2>1. CASE step[q] # "open"
    <3>1. pc[SessionOf[q]] = "live" /\ SessionOf[q] \in Sessions /\ SessionOf[q] # s
      BY <1>2, <2>1, RequestsLive
    <3>2. /\ entry[s].at \in Nat /\ loginAt[s] \in Nat
          /\ entry[SessionOf[q]].at \in Nat /\ loginAt[SessionOf[q]] \in Nat
          /\ loginAt[SessionOf[q]] <= entry[SessionOf[q]].at
      BY <3>1, Numbers
    <3>3. t = s => ~(entry[t].at < loginAt[SessionOf[q]])
      BY <1>6, <1>7, <3>1, <3>2
    <3> QED BY <1>2, <1>3, <1>5, <3>1, <3>3 DEF FindsIn, Armed, tabs
  <2>2. CASE step[q] = "open"
    BY <1>2, <2>2 DEF FindsIn, tabs
  <2> QED BY <2>1, <2>2
<1> QED BY <1>8, <1>9, <1>10 DEF BInv

\* What a tab stores, and what it loads or works out, is armed as before or has
\* dismissed the latest sign-in of all.
LEMMA TabNotices ==
    ASSUME TInv, DInv, BInv, NEW q \in Tabs, TabStep(q), trouble' = trouble,
           ~overlap => \A t \in Sessions :
              ~trouble /\ pc[t] = "live" /\ step'[q] # "open" =>
                 Armed(t, SessionOf[q], copy'[q]),
           stored' = stored
              \/ (step[q] # "open" /\ stored' = [stored EXCEPT ![SessionOf[q]] = copy[q]])
    PROVE  BInv'
<1>1. SUFFICES ASSUME ~overlap', ~trouble', NEW t \in Sessions
               PROVE  /\ Latest(t)'
                      /\ \A u \in Sessions : Finds(t, u)'
                      /\ \A p \in Tabs : FindsIn(t, p)'
  BY DEF BInv
<1>2. /\ ~overlap /\ ~trouble /\ UNCHANGED <<registry, pc, loginAt, previous, entry>>
      /\ \A p \in Tabs \ {q} : UNCHANGED <<step[p], copy[p]>>
  BY <1>1, TabStepFrame DEF signIns
<1>3. /\ Latest(t) /\ \A u \in Sessions : Finds(t, u)
      /\ \A p \in Tabs : FindsIn(t, p)
  BY <1>2 DEF BInv
<1>4. \A u \in Sessions : pc[t] = "live" /\ pc[u] = "live" => Armed(t, u, stored'[u])
  <2>1. ASSUME NEW u \in Sessions, pc[t] = "live", pc[u] = "live"
        PROVE  Armed(t, u, stored'[u])
    <3>1. CASE stored'[u] = stored[u]
      BY <1>3, <2>1, <3>1 DEF Finds
    <3>2. CASE u = SessionOf[q] /\ step[q] # "open" /\ stored'[u] = copy[q]
      BY <1>3, <2>1, <3>2 DEF FindsIn
    <3> QED BY <3>1, <3>2 DEF TInv, TypeOK
  <2> QED BY <2>1
<1>5. \A u \in Sessions : Finds(t, u)'
  BY <1>2, <1>3, <1>4 DEF Finds, Armed
<1>6. ASSUME NEW p \in Tabs PROVE FindsIn(t, p)'
  <2>1. CASE p = q
    BY <1>2, <2>1 DEF FindsIn, Armed
  <2>2. CASE p # q
    BY <1>2, <1>3, <2>2 DEF FindsIn, Armed
  <2> QED BY <2>1, <2>2
<1> QED BY <1>2, <1>3, <1>5, <1>6 DEF Latest

LEMMA LoadNotices ==
    ASSUME TInv, DInv, BInv, NEW q \in Tabs, Load(q) \/ Dismiss(q)
    PROVE  BInv'
<1> DEFINE s == SessionOf[q]
<1>1. /\ s \in Sessions /\ pc[s] = "live" /\ copy'[q] = stored[s]
      /\ UNCHANGED <<stored, trouble>> /\ TabStep(q)
  BY TabsAssumption DEF Load, Dismiss, Begin, TInv, TypeOK, TabStep
<1>2. ASSUME ~overlap, ~trouble, NEW t \in Sessions, pc[t] = "live"
      PROVE  Armed(t, s, copy'[q])
  BY <1>1, <1>2 DEF BInv, Finds
<1> QED BY <1>1, <1>2, TabNotices

LEMMA PageNotices ==
    ASSUME TInv, DInv, BInv, NEW q \in Tabs,
           View(q) \/ AnswerPage(q) \/ AnswerStoring(q) \/ AnswerDismissal(q)
    PROVE  BInv'
<1>1. TabStep(q) /\ trouble' = trouble /\ step[q] # "open"
  BY DEF TabStep, View, Checked, AnswerPage, AnswerStoring, AnswerDismissal, Answered
<1>2. /\ step'[q] = "open" \/ copy'[q] = copy[q]
      /\ stored' = stored \/ stored' = [stored EXCEPT ![SessionOf[q]] = copy[q]]
  BY DEF View, Checked, AnswerPage, AnswerStoring, AnswerDismissal, Answered, TInv, TypeOK
<1>3. ASSUME ~overlap, ~trouble, NEW t \in Sessions, pc[t] = "live"
      PROVE  Armed(t, SessionOf[q], copy[q])
  BY <1>1, <1>3 DEF BInv, FindsIn
<1> QED BY <1>1, <1>2, <1>3, TabNotices

LEMMA ReachNotices ==
    ASSUME TInv, DInv, BInv, NEW q \in Tabs, Reach(q)
    PROVE  BInv'
<1>1. PICK at \in Time, c \in Copies :
              /\ Reached(q, at) /\ copy'[q] = c /\ c.dismissedFor >= at
              /\ at >= registry.at
  BY ReachedCopy
<1>2. TabStep(q) /\ UNCHANGED <<stored, trouble>>
  BY <1>1 DEF TabStep, Reach, Reached
<1>3. ASSUME ~overlap, ~trouble, NEW t \in Sessions, pc[t] = "live"
      PROVE  Armed(t, SessionOf[q], copy'[q])
  <2>1. Latest(t)
    BY <1>3 DEF BInv
  <2>2. entry[t].at <= registry.at
    BY <1>3, <2>1 DEF Latest
  <2>3. /\ entry[t].at \in Nat /\ registry.at \in Nat /\ at \in Nat
        /\ c.dismissedFor \in Nat
    BY Numbers, TimeFacts, CopyFacts
  <2>4. entry[t].at <= c.dismissedFor
    BY <1>1, <2>2, <2>3
  <2> QED BY <1>1, <2>4 DEF Armed
<1> QED BY <1>2, <1>3, TabNotices

LEMMA ClearNotices ==
    ASSUME TInv, BInv, NEW s \in Sessions, Clear(s)
    PROVE  BInv'
<1>1. SUFFICES ASSUME ~overlap', ~trouble', NEW t \in Sessions
               PROVE  /\ Latest(t)'
                      /\ \A u \in Sessions : Finds(t, u)'
                      /\ \A q \in Tabs : FindsIn(t, q)'
  BY DEF BInv
<1>2. /\ Latest(t) /\ \A u \in Sessions : Finds(t, u) /\ pc' = [pc EXCEPT ![s] = "out"]
      /\ \A q \in Tabs : FindsIn(t, q)
      /\ UNCHANGED <<loginAt, previous, entry, stored, tabs>>
  BY <1>1 DEF Clear, Cleared, BInv
<1>3. registry'.at = registry.at /\ (registry' # registry => registry'.id = NoSession)
  BY NoEntryFacts DEF Clear, IdAtClear, TInv, Stamped
<1>4. Latest(t)' /\ \A u \in Sessions : Finds(t, u)'
  BY <1>2, <1>3, SessionsAssumption DEF Latest, Finds, Armed, TInv, TypeOK
<1>5. \A q \in Tabs : FindsIn(t, q)'
  BY <1>2 DEF FindsIn, Armed, tabs, TInv, TypeOK
<1> QED BY <1>4, <1>5

LEMMA NoticesNext ==
    ASSUME TInv, DInv, AInv, BInv, [Next]_vars
    PROVE  BInv'
<1>1. ASSUME NEW s \in Sessions, SignIn(s) PROVE BInv'
  <2>1. ~overlap' => ~overlap
    BY <1>1 DEF SignIn
  <2>2. CASE overlap'
    BY <2>2 DEF BInv
  <2>3. CASE ~overlap' /\ overlap' = overlap
    <3>1. /\ pc[s] = "new" /\ pc'[s] = "reading" /\ UNCHANGED <<trouble, registry, tabs>>
          /\ \A t \in Sessions \ {s} :
                UNCHANGED <<pc[t], loginAt[t], entry[t], previous[t], stored[t]>>
      BY <1>1 DEF SignIn, TInv, TypeOK
    <3>2. ASSUME NEW q \in Tabs PROVE step[q] = "open" \/ SessionOf[q] \in Sessions \ {s}
      BY <3>1, RequestsLive
    <3> QED BY <2>3, <3>1, <3>2, NoticesStay DEF tabs
  <2> QED BY <1>1, <2>1, <2>2, <2>3 DEF SignIn, TInv, TypeOK
<1>2. ASSUME NEW s \in Sessions, ReadPreviousFails(s) \/ StoreFails(s) \/ ClearFails(s)
      PROVE  BInv'
  BY <1>2 DEF ReadPreviousFails, StoreFails, ClearFails, BInv
<1>3. ASSUME NEW s \in Sessions, SignOut(s) PROVE BInv'
  <2>1. /\ pc'[s] = "leaving" /\ UNCHANGED <<trouble, registry, overlap>>
        /\ \A t \in Sessions \ {s} :
              UNCHANGED <<pc[t], loginAt[t], entry[t], previous[t], stored[t]>>
    BY <1>3 DEF SignOut, TInv, TypeOK
  <2>2. ASSUME NEW q \in Tabs
        PROVE  \/ UNCHANGED <<step[q], copy[q], loginAt[SessionOf[q]]>>
               \/ step'[q] = "open"
    BY <1>3, <2>1, TabsAssumption DEF SignOut
  <2> QED BY <2>1, <2>2, NoticesStay
<1>4. CASE Tick \/ UNCHANGED vars
  BY <1>4, NoticesStay DEF Tick, others, signIns, tabs, vars
<1>5. CASE Expire
  BY <1>5 DEF Expire, BInv
<1>6. ASSUME NEW q \in Tabs, ViewFails(q) \/ ReachFails(q) PROVE BInv'
  BY <1>6 DEF ViewFails, ReachFails, BInv
<1>7. ASSUME NEW q \in Tabs, TabStep(q) PROVE BInv'
  BY <1>6, <1>7, LoadNotices, PageNotices, ReachNotices DEF TabStep
<1> QED BY <1>1, <1>2, <1>3, <1>4, <1>5, <1>7, FoundNotices, StoreNotices,
           ClearNotices DEF Next, SessionStep

LEMMA NoticesEnough ==
    ASSUME TInv, BInv
    PROVE  BothAreTold
<1>1. SUFFICES ASSUME ~trouble, ~overlap, NEW s \in Sessions, NEW t \in Sessions,
                      pc[s] = "live", pc[t] = "live", entry[s].at < loginAt[t]
               PROVE  /\ AlertDue(s, stored[s]) \/ stored[s].dismissedFor >= entry[t].at
                      /\ InfoDue(stored[t]) \/ stored[t].dismissedFor >= entry[s].at
  BY DEF BothAreTold
<1>2. Latest(s) /\ Latest(t) /\ Finds(s, t)
  BY <1>1 DEF BInv
<1>3. entry[t].at <= registry.at /\ loginAt[t] <= entry[t].at /\ loginAt[s] <= entry[s].at
  BY <1>1, <1>2, Numbers DEF Latest
<1>4. /\ loginAt[s] \in Nat /\ entry[s].at \in Nat /\ loginAt[t] \in Nat
      /\ entry[t].at \in Nat /\ registry.at \in Nat /\ stored[s].dismissedFor \in Nat
      /\ stored[t].dismissedFor \in Nat /\ stored[t].info.at \in Nat
  BY Numbers
<1>5. registry.id # s
  BY <1>1, <1>2, <1>3, <1>4 DEF Latest
<1>6. registry.id # NoSession
  BY <1>1, <1>3, <1>4 DEF TInv, Stamped
<1>7. AlertDue(s, stored[s]) \/ stored[s].dismissedFor >= entry[t].at
  BY <1>1, <1>3, <1>4, <1>5, <1>6 DEF AlertDue
<1>8. InfoDue(stored[t]) \/ stored[t].dismissedFor >= entry[s].at
  BY <1>1, <1>2, <1>4 DEF Finds, Armed, InfoDue
<1> QED BY <1>7, <1>8

\* Two live sessions signed in one after the other are both told of it, or have
\* dismissed it, whatever other sessions sign in and out in the meantime.
THEOREM BothTold == Spec => []BothAreTold
<1>1. TInv /\ DInv /\ AInv /\ BInv /\ [Next]_vars => TInv' /\ DInv' /\ AInv' /\ BInv'
  BY TypesNext, DismissalsNext, ApartNext, NoticesNext
<1>2. TInv /\ BInv => BothAreTold
  BY NoticesEnough
<1> QED BY TypesFirst, DismissalsFirst, NoticesFirst, <1>1, <1>2, PTL DEF Spec

-----------------------------------------------------------------------------
(* What a sign-out does to the registry: nothing, so that the entry of a   *)
(* sign-in outlives it, as the run of SignedOutIsForgotten shows.          *)

DropsNothing == \A s \in Sessions : Clear(s) => registry' = registry

\* The call that is to drop the entry of a session that signs out never drops
\* one: by the time it compares, the request's session id is a new one.
THEOREM SignOutsDropNothing == Spec => [][DropsNothing]_vars
<1>1. TypeOK /\ Stamped => DropsNothing
  <2> SUFFICES ASSUME TypeOK, Stamped, NEW s \in Sessions, Clear(s)
               PROVE  registry' = registry
    BY DEF DropsNothing
  <2>1. CASE registry.id = NoSession
    <3>1. registry = [at |-> registry.at, id |-> registry.id]
      BY DEF TypeOK, Entries
    <3> QED BY <2>1, <3>1 DEF Stamped, NoEntry, Clear
  <2>2. CASE registry.id # NoSession
    BY <2>2 DEF Clear, IdAtClear
  <2> QED BY <2>1, <2>2
<1> QED BY <1>1, TypeCorrect, PTL
=============================================================================
