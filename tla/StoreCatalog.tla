---------------------------- MODULE StoreCatalog ----------------------------
(***************************************************************************)
(* ImageStore, used by one command at a time that does not crash, keeps a  *)
(* Catalog.                                                                *)
(***************************************************************************)
EXTENDS ImageStore

\* The records that count: what a process is about to write once it has
\* begun to write it, else what the index file holds.
Current ==
    LET writing == {p \in Procs : pc[p] \in {"truncate", "write"}}
    IN  IF writing = {} THEN index ELSE UNION {out[p] : p \in writing}

versions ==
    [n \in {r.name : r \in Current} |->
       LET r == CHOOSE q \in Current : q.name = n
       IN  Append(r.history, r.digest)]

C == INSTANCE Catalog WITH catalog <- versions

\* Each command changes the index as one step of the catalog: it gives one
\* name a version, moves, copies or drops one name, or takes the newest
\* version from the names of one id, and leaves all other names as they are.
CatalogSpec == C!Spec
=============================================================================
