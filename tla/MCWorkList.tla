----------------------------- MODULE MCWorkList -----------------------------
(* Small instances of WorkList: two officers, one of them with a nation of *)
(* their own, and searches that use every kind of filter between them.     *)
EXTENDS WorkList, TLC

CONSTANTS ann, bob

MCUsers == {ann, bob}

MCNationRoles == [u \in MCUsers |-> IF u = bob THEN {"Wales"} ELSE {}]

Ticking(group, values) == [Bare.ticked EXCEPT ![group] = values]

MCForms ==
    {[Bare EXCEPT !.applied = TRUE,
                  !.ticked = Ticking("typeId", {"exporter", ReAccreditation})]}

MCBookmarks ==
    {[Bare EXCEPT !.sort = "unknown", !.search = "acme",
                  !.ticked = Ticking("status", {"duly-made"})],
     [Bare EXCEPT !.mode = "user", !.officer = ann,
                  !.ticked = Ticking("applicationType", {"accreditation"})]}

Symmetry == Permutations(Tabs)

Item(stateId, exporter, nation, material, assignedTo, archived) ==
    [typeId |-> ReAccreditation, stateId |-> stateId, exporter |-> exporter,
     nation |-> nation, material |-> material, assignedTo |-> assignedTo,
     archived |-> archived]

\* Every state with both kinds of applicant, then every nation, material and
\* officer.
MCItems ==
    {Item(s, e, "Wales", "glass", ann, FALSE) :
        s \in Declared!States, e \in BOOLEAN}
    \cup {Item("duly-made", FALSE, n, m, u, a) :
        n \in {"Wales", "England", "Scotland"}, m \in {"glass", "wood"},
        u \in {ann, bob, Nobody}, a \in BOOLEAN}
=============================================================================
