------------------------------ MODULE Catalog ------------------------------
(***************************************************************************)
(* What the image store promises its user: a catalog that gives each image *)
(* name in use the manifests it has stood for, oldest first.  One command  *)
(* is one step, and touches only the names it is about.                    *)
(***************************************************************************)
EXTENDS SequencesExt

CONSTANTS
    Names,      \* image names
    Manifests,  \* digests of manifests
    ConfigOf    \* [Manifests -> config digests]: the id of an image

VARIABLE catalog   \* a function from the names in use to sequences

Init == catalog = [n \in {} |-> <<>>]

Versions(name) == IF name \in DOMAIN catalog THEN catalog[name] ELSE <<>>

Assign(name, versions) ==
    catalog' = [n \in DOMAIN catalog \cup {name} |->
                  IF n = name THEN versions ELSE catalog[n]]

\* build and config give the name one more version.
Publish(name, m) == Assign(name, Append(Versions(name), m))

\* pull makes m the newest version, moving it there from an older place.
Refresh(name, m) ==
    LET old   == Versions(name)
        other == IF old # <<>> /\ Last(old) = m THEN Front(old) ELSE old
    IN  Assign(name, Append(RemoveFirst(other, m), m))

\* tag makes a name stand for what another one stands for, history and all.
Alias(from, to) == from \in DOMAIN catalog /\ Assign(to, catalog[from])

\* rmi of a name.
Forget(name) ==
    catalog' = [n \in DOMAIN catalog \ {name} |-> catalog[n]]

\* rmi of an id: each name whose newest version has the id loses it.
Retreat(id) ==
    LET hit  == {n \in DOMAIN catalog : ConfigOf[Last(catalog[n])] = id}
        bare == {n \in hit : Len(catalog[n]) = 1}
    IN  catalog' = [n \in DOMAIN catalog \ bare |->
                      IF n \in hit THEN Front(catalog[n]) ELSE catalog[n]]

Next ==
    \/ \E name \in Names, m \in Manifests : Publish(name, m) \/ Refresh(name, m)
    \/ \E from, to \in Names : Alias(from, to)
    \/ \E name \in Names : Forget(name)
    \/ \E m \in Manifests : Retreat(ConfigOf[m])

Spec == Init /\ [][Next]_catalog
=============================================================================
