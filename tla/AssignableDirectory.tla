------------------------- MODULE AssignableDirectory -------------------------
(***************************************************************************)
(* The directory of assignable users (auth/assignable-users-store.js): one *)
(* Redis hash, written by the callback of each Entra ID sign-in            *)
(* (routes/auth/controller.js) and read by every page that lists or looks  *)
(* up assignees (work-items/core/assignees.js). A read prunes what it      *)
(* finds expired or corrupt in the background, so nothing keeps its        *)
(* deletion in order with the sign-ins that come after the read.           *)
(*                                                                         *)
(* Several instances of the frontend share the hash: commands reach it in  *)
(* any order. Redis and Entra ID are external.                             *)
(***************************************************************************)
EXTENDS Integers

CONSTANTS
    Users,      \* the identities that sign in
    SignIns,    \* the callbacks that may be under way at once
    Reads,      \* the directory reads that may be under way at once
    Window,     \* auth.assignableUserInactivityDays
    MaxTime     \* bounds the clock

ASSUME WindowAssumption == Window \in Nat
ASSUME MaxTimeAssumption == MaxTime \in Nat

VARIABLES
    now,        \* Date.now(), in days
    directory,  \* the hash: an entry, or none, for each user
    signIn,     \* the callback each sign-in is at
    read,       \* the read each page is at
    prunes,     \* the background deletions that have not reached Redis
    ideal,      \* what the sign-ins alone have made of the directory
    raced       \* whom a sign-in has written while a read might prune them

store == <<directory, ideal, raced>>
vars == <<now, directory, signIn, read, prunes, ideal, raced>>

-----------------------------------------------------------------------------
Time == 0..MaxTime

Absent == [is |-> "absent", lastLoginAt |-> 0]

Corrupt == [is |-> "corrupt", lastLoginAt |-> 0]

Entry(t) == [is |-> "entry", lastLoginAt |-> t]

Entries == {Absent, Corrupt} \cup {Entry(t) : t \in Time}

\* Faulty variants of the next two, used by no specification: an entry that
\* expires a day early, a sign-in without the role that only skips the upsert,
\* and an entry stamped with the day it expires.
EarlyIsExpired(e, t) == e.is = "entry" /\ t - e.lastLoginAt >= Window

KeepingSynced(e, holds, t) == IF holds THEN Entry(t) ELSE e

ExpirySynced(e, holds, t) == IF holds THEN Entry(t + Window) ELSE Absent

IsExpired(e, t) == e.is = "entry" /\ t - e.lastLoginAt > Window

\* The directory after the callback's write: upsertAssignableUser for a caller
\* with the regulator role, removeAssignableUser for any other.
Synced(e, holds, t) == IF holds THEN Entry(t) ELSE Absent

Idle == [step |-> "idle"]

SignInSteps ==
    {Idle} \cup [step : {"claims"}, user : Users, holds : BOOLEAN]
           \cup [step : {"sync"}, user : Users, holds : BOOLEAN, at : Time]

ReadSteps ==
    {Idle} \cup [step : {"fetched"}, scope : SUBSET Users,
                 raw : [Users -> Entries]]

-----------------------------------------------------------------------------
(* The callback of a sign-in.                                              *)

\* Entra ID issues a token whose roles claim says whether u holds the
\* regulator app role.
IssueToken(s) ==
    /\ signIn[s] = Idle
    /\ \E u \in Users, holds \in BOOLEAN :
          signIn' = [signIn EXCEPT ![s] =
                        [step |-> "claims", user |-> u, holds |-> holds]]
    /\ UNCHANGED <<now, store, read, prunes>>

\* The verified token's claims are acted on: the entry is stamped and its
\* write, or the deletion, is sent.
Sync(s) ==
    /\ signIn[s].step = "claims"
    /\ signIn' = [signIn EXCEPT ![s] =
                    [step |-> "sync", user |-> signIn[s].user,
                     holds |-> signIn[s].holds, at |-> now]]
    /\ UNCHANGED <<now, store, read, prunes>>

\* A read or a deletion under way that may prune u without seeing this write.
MayPrune(u) ==
    \/ \E ids \in prunes : u \in ids
    \/ \E p \in Reads : /\ read[p].step = "fetched"
                        /\ u \in read[p].scope
                        /\ read[p].raw[u].is # "absent"

\* The write reaches Redis. Its answer may be lost, and the client may send it
\* again when it reconnects.
SyncApplied(s) ==
    LET u == signIn[s].user
        e == Synced(directory[u], signIn[s].holds, signIn[s].at)
    IN  /\ signIn[s].step = "sync"
        /\ directory' = [directory EXCEPT ![u] = e]
        /\ ideal' = [ideal EXCEPT ![u] =
                        IF signIn[s].holds THEN Entry(signIn[s].at) ELSE Absent]
        /\ raced' = IF MayPrune(u) THEN raced \cup {u} ELSE raced \ {u}
        /\ signIn' \in {signIn, [signIn EXCEPT ![s] = Idle]}
        /\ UNCHANGED <<now, read, prunes>>

\* The write fails, which is logged and never fails the sign-in.
SyncFails(s) ==
    /\ signIn[s].step = "sync"
    /\ signIn' = [signIn EXCEPT ![s] = Idle]
    /\ UNCHANGED <<now, store, read, prunes>>

-----------------------------------------------------------------------------
(* A read: of the whole directory, or of one user. A read that fails shows *)
(* nobody and changes nothing, so it has no step here.                     *)

Fetch(p) ==
    /\ read[p] = Idle
    /\ \E scope \in {Users} \cup {{u} : u \in Users} :
          read' = [read EXCEPT ![p] =
                      [step |-> "fetched", scope |-> scope, raw |-> directory]]
    /\ UNCHANGED <<now, store, signIn, prunes>>

\* What a read that fetched raw prunes at time t: the corrupt entries one by
\* one, the expired ones in one command.
Pruned(scope, raw, t) ==
    {{u} : u \in {v \in scope : raw[v].is = "corrupt"}}
        \cup ({{u \in scope : IsExpired(raw[u], t)}} \ {{}})

Conclude(p) ==
    /\ read[p].step = "fetched"
    /\ prunes' = prunes \cup Pruned(read[p].scope, read[p].raw, now)
    /\ read' = [read EXCEPT ![p] = Idle]
    /\ UNCHANGED <<now, store, signIn>>

\* A background deletion reaches Redis, or fails and is forgotten. Another of
\* the same users may be under way, or the client may send this one again.
PruneApplied(ids) ==
    /\ directory' = [u \in Users |-> IF u \in ids THEN Absent ELSE directory[u]]
    /\ prunes' \in {prunes, prunes \ {ids}}
    /\ UNCHANGED <<now, ideal, raced, signIn, read>>

PruneFails(ids) ==
    /\ prunes' = prunes \ {ids}
    /\ UNCHANGED <<now, store, signIn, read>>

-----------------------------------------------------------------------------
(* The world.                                                              *)

Tick ==
    /\ now < MaxTime
    /\ now' = now + 1
    /\ UNCHANGED <<store, signIn, read, prunes>>

Init ==
    /\ now = 0
    /\ directory \in [Users -> {Absent, Corrupt, Entry(0)}]
    /\ signIn = [s \in SignIns |-> Idle]
    /\ read = [p \in Reads |-> Idle]
    /\ prunes = {}
    /\ ideal = directory
    /\ raced = {}

Next ==
    \/ \E s \in SignIns : IssueToken(s) \/ Sync(s) \/ SyncApplied(s) \/ SyncFails(s)
    \/ \E p \in Reads : Fetch(p) \/ Conclude(p)
    \/ \E ids \in prunes : PruneApplied(ids) \/ PruneFails(ids)
    \/ Tick

Spec == Init /\ [][Next]_vars

-----------------------------------------------------------------------------
(* What the code promises.                                                 *)

\* Every variable has its type.
TypeOK ==
    /\ now \in Time
    /\ directory \in [Users -> Entries]
    /\ signIn \in [SignIns -> SignInSteps]
    /\ read \in [Reads -> ReadSteps]
    /\ prunes \subseteq SUBSET Users
    /\ ideal \in [Users -> Entries]
    /\ raced \subseteq Users

\* e is one a read at time t shows: signed in no longer ago than the window.
Current(e, t) == e.is = "entry" /\ t - e.lastLoginAt <= Window

\* The directory lists whom the sign-ins say it should. Whoever is listed is
\* there with the date of their latest sign-in to be recorded, which held the
\* role; whoever lost the role is not. And who signed in with the role, in the
\* window, is listed, but for who did so during a read: pruning, by any number of
\* reads at once, never shows otherwise, and never but by an absence.
DirectoryIsTrue ==
    \A u \in Users :
        /\ Current(directory[u], now) => directory[u] = ideal[u]
        /\ u \notin raced /\ Current(ideal[u], now) => directory[u] = ideal[u]

\* A read prunes an entry "whose lastLoginAt is older than the configured
\* inactivity window", and no other (assignable-users-store.js:32-33).
PrunesOnlyTheInactive ==
    [][\A ids \in prunes : PruneApplied(ids) =>
          \A u \in ids : ~Current(directory[u], now)]_vars

-----------------------------------------------------------------------------
(* Why DirectoryIsTrue holds: what a read or a deletion under way can know *)
(* of a user nobody has raced.                                             *)

\* Outdated for good: time only makes it more so.
Outdated(e) == ~Current(e, now)

TrueOf(u) ==
    /\ \/ directory[u] = ideal[u]
       \/ directory[u] = Absent /\ Outdated(ideal[u])
    /\ \A ids \in prunes : u \in ids => Outdated(ideal[u])
    /\ \A p \in Reads : read[p].step = "fetched" /\ u \in read[p].scope =>
          read[p].raw[u] \in {Absent, ideal[u]}

\* Deletions are all that parts the directory from the sign-ins.
OnlyThinned == \A u \in Users : directory[u] \in {Absent, ideal[u]}

DirectoryInv == OnlyThinned /\ \A u \in Users \ raced : TrueOf(u)
=============================================================================
