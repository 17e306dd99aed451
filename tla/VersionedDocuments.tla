------------------------ MODULE VersionedDocuments -------------------------
(***************************************************************************)
(* What a session promises about the documents it shares with other        *)
(* writers, with no entity, resource, mark, cache or task in it: optimistic*)
(* concurrency by versions.  A session writes a set of documents together, *)
(* and only if each has the version the session knows; otherwise it writes *)
(* none.  It knows a version from a load or from its own writes, and that  *)
(* of a write whose answer is lost it does not know.                       *)
(*                                                                         *)
(* The consequence that matters to a user: what another writer has made of *)
(* a document is overwritten only by a session that has loaded it.         *)
(***************************************************************************)
EXTENDS Naturals

CONSTANT Keys

VARIABLES documents,  \* the document of each key; version 0: none
          known       \* the version the session's state of a key descends from; 0: none

vars == <<documents, known>>

NothingKnown == [k \in Keys |-> 0]

Init ==
    /\ \A k \in Keys : documents[k].version \in Nat
    /\ known = NothingKnown

\* The session loads documents, or only asks for their versions.
Learn ==
    /\ \E ks \in SUBSET Keys :
          known' = [k \in Keys |-> IF k \in ks THEN documents[k].version ELSE known[k]]
    /\ UNCHANGED documents

\* Another writer, which knows the document's version, raises it.
Interfere ==
    /\ \E k \in Keys :
          /\ documents'[k].version = documents[k].version + 1
          /\ \A l \in Keys \ {k} : documents'[l] = documents[l]
    /\ UNCHANGED known

\* The documents ks are created, updated or deleted, all of them at once.
Write(ks) ==
    /\ \A k \in ks :
          /\ documents[k].version = known[k]
          /\ documents'[k].version \in {0, known[k] + 1}
    /\ \A k \in Keys \ ks : documents'[k] = documents[k]

Commit ==
    \E ks \in SUBSET Keys :
        /\ Write(ks)
        /\ known' = [k \in Keys |-> IF k \in ks THEN documents'[k].version ELSE known[k]]

\* The session takes it for failed.
CommitUnheard ==
    /\ \E ks \in SUBSET Keys : Write(ks)
    /\ UNCHANGED known

\* A new session, beside which the last commit of the old one may land.
Restart ==
    /\ \E ks \in SUBSET Keys : Write(ks)
    /\ known' = NothingKnown

Next == Learn \/ Interfere \/ Commit \/ CommitUnheard \/ Restart

Spec == Init /\ [][Next]_vars
=============================================================================
