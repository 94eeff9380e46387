----------------------------- MODULE Repository -----------------------------
(***************************************************************************)
(* What a repository that images are pushed to promises those who pull     *)
(* from it: blobs come one by one and stay, and a tag is given a manifest  *)
(* only once every blob that manifest names is there.                      *)
(***************************************************************************)
CONSTANTS
    Blobs,      \* digests of configs and layers
    Manifests,  \* digests of manifests
    Tags,
    None,       \* the manifest of a tag that is not in use
    PartsOf     \* [Manifests -> SUBSET Blobs]: what a manifest names

VARIABLES
    stored,  \* the blobs the repository has
    named    \* the manifest of each tag

repository == <<stored, named>>

Init == stored = {} /\ named = [t \in Tags |-> None]

Store(b) == stored' = stored \cup {b} /\ UNCHANGED named

Publish(t, m) ==
    /\ PartsOf[m] \subseteq stored
    /\ named' = [named EXCEPT ![t] = m]
    /\ UNCHANGED stored

Next ==
    \/ \E b \in Blobs : Store(b)
    \/ \E t \in Tags, m \in Manifests : Publish(t, m)

Spec == Init /\ [][Next]_repository

\* Whoever resolves a tag can fetch everything its manifest names.
Complete == \A t \in Tags : named[t] # None => PartsOf[named[t]] \subseteq stored
=============================================================================
