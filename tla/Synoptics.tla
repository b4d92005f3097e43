------------------------------ MODULE Synoptics ------------------------------
(***************************************************************************)
(* Versioned synoptics (backend/app/api/routes/synoptics.py) over           *)
(* PostgreSQL at READ COMMITTED: one action per SQL statement, several      *)
(* requests at once.  A statement sees the committed rows; what a           *)
(* transaction wrote and the row locks it holds are read off its pc.        *)
(*                                                                          *)
(* A synoptic is named by the request that creates it (0 is there at the    *)
(* start), a document by the request that sends it, a slug by its suffix.   *)
(***************************************************************************)
EXTENDS Integers, FiniteSets

CONSTANTS
  Requests,     \* a set of positive integers
  Creators,     \* the requests that may create a synoptic
  Given,        \* the slugs a client may choose
  MaxAborts     \* bound on the transactions the API loses

ASSUME SynopticsAssumption ==
  Requests \subseteq Nat \ {0} /\ Given \subseteq Nat \ {0}

Ids == Requests \cup {0}
Slugs == 1..(Cardinality(Creators) + 1 + Cardinality(Given))
Gone == 0

VARIABLES
  slug,     \* committed rows of synoptic: its slug, or Gone
  rows,     \* committed rows of synoptic_version: [syn, n, doc]
  pc,       \* where each request is in its handler
  req,      \* [kind, syn, base, slug], what each request asks for
  num,      \* the version number a request computed
  doc,      \* the document it writes
  updated,  \* the requests that changed the name of the synoptic
  (* history *)
  floor     \* versions the synoptic had when the request came in

vars == <<slug, rows, pc, req, num, doc, updated, floor>>

Versions(s) == {v.n : v \in {w \in rows : w.syn = s}}
MaxVersion(s) == IF Versions(s) = {} THEN 0
                 ELSE CHOOSE n \in Versions(s) : \A k \in Versions(s) : k <= n

NoRequest == [kind |-> "none", syn |-> 0, base |-> 0, slug |-> Gone]
Kinds == {"create", "save", "restore", "delete"}

Init ==
  /\ slug = [s \in Ids |-> IF s = 0 THEN 1 ELSE Gone]
  /\ rows = {[syn |-> 0, n |-> 1, doc |-> 0]}
  /\ pc = [r \in Requests |-> "new"]
  /\ req = [r \in Requests |-> NoRequest]
  /\ num = [r \in Requests |-> 0]
  /\ doc = [r \in Requests |-> r]
  /\ updated = {}
  /\ floor = [r \in Requests |-> 0]

(* The answers: a committed request, the refusals 404, 409 and 422 the     *)
(* handlers raise, the error 500 of an exception they do not catch, and a  *)
(* request that is lost.                                                   *)
Answers == {"ok", "absent", "conflict", "invalid", "error", "lost"}
Running(r) == pc[r] \notin Answers \cup {"new"}

(* Locks a request holds until it commits: FOR NO KEY UPDATE on the        *)
(* synoptic after its UPDATE, FOR KEY SHARE after the INSERT of a version  *)
(* (foreign key), FOR UPDATE after its DELETE, the rows of synoptic_version *)
(* after theirs.                                                           *)
Renaming(r, s) == req[r].syn = s /\ r \in updated
Inserting(r, s) == req[r].syn = s /\ pc[r] = "inserted"
Removing(r, s) == req[r].syn = s /\ pc[r] = "removing"
Emptying(r, s) == req[r].syn = s /\ pc[r] \in {"emptied", "removing"}

(* Mutant of Released: a refused request is not rolled back. *)
ReleasedNever(r) == updated

Released(r) == updated \ {r}

Goto(r, label) == pc' = [pc EXCEPT ![r] = label]

Step(r, label) ==
  /\ Goto(r, label)
  /\ UNCHANGED <<slug, rows, req, num, doc, updated, floor>>

(* The request ends without a commit: its transaction is rolled back. *)
Refuse(r, answer) ==
  /\ Goto(r, answer)
  /\ req' = [req EXCEPT ![r] = NoRequest]
  /\ num' = [num EXCEPT ![r] = 0]
  /\ doc' = [doc EXCEPT ![r] = r]
  /\ floor' = [floor EXCEPT ![r] = 0]
  /\ updated' = Released(r)
  /\ UNCHANGED <<slug, rows>>

-----------------------------------------------------------------------------
(* The synoptics a client can name: the first and the ones created. *)
Known == {0} \cup {q \in Requests : req[q].kind = "create" /\ pc[q] = "ok"}

Arrives(r) == pc[r] = "new" /\ \A q \in Requests : q < r => pc[q] # "new"

(* _validated (413, 422) or is_valid_slug refuses what a request sends. *)
Reject(r) == Arrives(r) /\ Refuse(r, "invalid")

(* A request comes in.  Its base version is one the editor loaded: a       *)
(* version of the synoptic, or 0 for none.                                 *)
(* Requests are numbered in the order they come in.                        *)
Receive(r) ==
  /\ Arrives(r)
  /\ \E kind \in Kinds, s \in Ids, b \in 0..Cardinality(Ids), g \in Given \cup {Gone} :
       /\ kind = "create" => r \in Creators /\ s = r /\ b = 0
       /\ kind # "create" => s \in Known /\ g = Gone
       /\ kind = "save" => b \in Versions(s) \cup {0}
       /\ kind = "restore" => b \in Versions(s) \cup {MaxVersion(s) + 1}
       /\ kind = "delete" => b = 0
       /\ req' = [req EXCEPT ![r] = [kind |-> kind, syn |-> s, base |-> b, slug |-> g]]
       /\ floor' = [floor EXCEPT ![r] = MaxVersion(s)]
       /\ Goto(r, IF kind # "create" THEN "open" ELSE IF g = Gone THEN "slug" ELSE "create")
  /\ UNCHANGED <<slug, rows, num, doc, updated>>

(* create_synoptic without a slug: the next free one, a query for each.    *)
ProbeSlug(r) ==
  /\ pc[r] = "slug"
  /\ LET probe == IF req[r].slug = Gone THEN 1 ELSE req[r].slug
         taken == \E s \in Ids : slug[s] = probe
     IN /\ req' = [req EXCEPT ![r].slug = IF taken THEN probe + 1 ELSE probe]
        /\ Goto(r, IF taken THEN "slug" ELSE "create")
  /\ UNCHANGED <<slug, rows, num, doc, updated, floor>>

SlugTaken(r) == \E s \in Ids : slug[s] = req[r].slug

(* The INSERT of the synoptic: the unique index on slug waits for the      *)
(* transactions that insert or delete the same slug, then may refuse.      *)
InsertSynoptic(r) ==
  /\ pc[r] = "create"
  /\ \A q \in Requests \ {r} :
       /\ ~(req[q].kind = "create" /\ req[q].slug = req[r].slug
            /\ pc[q] \in {"created", "numbered", "inserted"})
       /\ ~(pc[q] = "removing" /\ slug[req[q].syn] = req[r].slug)
  /\ IF SlugTaken(r)
     THEN Refuse(r, "conflict") ELSE Step(r, "created")

(* _by_id. *)
Open(r) ==
  /\ pc[r] = "open"
  /\ IF slug[req[r].syn] = Gone
     THEN Refuse(r, "absent") ELSE Step(r, "opened")

(* Mutant of Stale: only a base from the future is refused. *)
StaleIfAhead(r) == req[r].base # 0 /\ req[r].base > MaxVersion(req[r].syn)

(* save_synoptic: was another version saved since base_version? *)
Stale(r) ==
  /\ req[r].base # 0
  /\ Versions(req[r].syn) # {}
  /\ MaxVersion(req[r].syn) # req[r].base

CheckBase(r) ==
  /\ pc[r] = "opened" /\ req[r].kind = "save"
  /\ IF Stale(r)
     THEN Refuse(r, "conflict") ELSE Step(r, "named")

Document(s, n) == (CHOOSE v \in rows : v.syn = s /\ v.n = n).doc

(* Mutant of Old: the last version is copied. *)
OldIsLast(r) == Document(req[r].syn, MaxVersion(req[r].syn))

Old(r) == Document(req[r].syn, req[r].base)

(* restore_version: the old version and its document. *)
ReadOld(r) ==
  /\ pc[r] = "opened" /\ req[r].kind = "restore"
  /\ IF req[r].base \notin Versions(req[r].syn)
     THEN Refuse(r, "absent")
     ELSE /\ doc' = [doc EXCEPT ![r] = Old(r)]
          /\ Goto(r, "named")
          /\ UNCHANGED <<slug, rows, req, num, updated, floor>>

(* The UPDATE of a changed name, flushed before the next query: it waits   *)
(* for the row, and fails (StaleDataError) when the row is gone.           *)
Rename(r) ==
  /\ pc[r] = "named"
  /\ \A q \in Requests \ {r} : ~Renaming(q, req[r].syn) /\ ~Removing(q, req[r].syn)
  /\ r \notin updated
  /\ \/ slug[req[r].syn] = Gone /\ Refuse(r, "error")
     \/ /\ slug[req[r].syn] # Gone
        /\ updated' = updated \cup {r}
        /\ UNCHANGED <<slug, rows, pc, req, num, doc, floor>>

(* _add_version: max(version) + 1. *)
Number(r) == MaxVersion(req[r].syn) + 1

ReadMax(r) ==
  /\ pc[r] \in {"created", "named"}
  /\ num' = [num EXCEPT ![r] = Number(r)]
  /\ Goto(r, "numbered")
  /\ UNCHANGED <<slug, rows, req, doc, updated, floor>>

(* Mutant of Duplicate: there is no unique constraint on (synoptic_id, version). *)
NoDuplicate(r) == FALSE

(* The unique constraint of synoptic_version. *)
Duplicate(r) == num[r] \in Versions(req[r].syn)

(* The answer to an IntegrityError of _add_version: caught by save only. *)
Refused(r) == IF req[r].kind = "save" THEN "conflict" ELSE "error"

(* The foreign key of the new version waits for a DELETE of its synoptic. *)
WaitsForDelete(r) == \E q \in Requests \ {r} : Removing(q, req[r].syn)

(* The INSERT of the version: the unique index waits for the same number,  *)
(* the foreign key for a deletion; then either may refuse.                 *)
InsertVersion(r) ==
  /\ pc[r] = "numbered"
  /\ ~WaitsForDelete(r)
  /\ ~\E q \in Requests \ {r} : Inserting(q, req[r].syn) /\ num[q] = num[r]
  /\ IF Duplicate(r) \/ (req[r].kind # "create" /\ slug[req[r].syn] = Gone)
     THEN Refuse(r, Refused(r)) ELSE Step(r, "inserted")

CommitVersion(r) ==
  /\ pc[r] = "inserted"
  /\ rows' = rows \cup {[syn |-> req[r].syn, n |-> num[r], doc |-> doc[r]]}
  /\ slug' = IF req[r].kind = "create" THEN [slug EXCEPT ![r] = req[r].slug] ELSE slug
  /\ Goto(r, "ok")
  /\ updated' = updated \ {r}
  /\ UNCHANGED <<req, num, doc, floor>>

(* delete_synoptic: the versions first, which waits for another deletion, *)
(* then the synoptic, which waits for every lock on its row.               *)
DeleteVersions(r) ==
  /\ pc[r] = "opened" /\ req[r].kind = "delete"
  /\ \A q \in Requests \ {r} : ~Emptying(q, req[r].syn)
  /\ Step(r, "emptied")

DeleteSynoptic(r) ==
  /\ pc[r] = "emptied"
  /\ \A q \in Requests \ {r} : ~Renaming(q, req[r].syn) /\ ~Inserting(q, req[r].syn)
  /\ Step(r, "removing")

(* Both DELETEs and the cascade of the foreign key. *)
RowsAfterDelete(r) == {v \in rows : v.syn # req[r].syn}

CommitDelete(r) ==
  /\ pc[r] = "removing"
  /\ rows' = RowsAfterDelete(r)
  /\ slug' = [slug EXCEPT ![req[r].syn] = Gone]
  /\ Goto(r, "ok")
  /\ UNCHANGED <<req, num, doc, updated, floor>>

(* The session or its connection is lost: the transaction is rolled back. *)
Abort(r) ==
  /\ Running(r) /\ Cardinality({q \in Requests : pc[q] = "lost"}) < MaxAborts
  /\ Refuse(r, "lost")

Handle(r) ==
  \/ ProbeSlug(r) \/ InsertSynoptic(r)
  \/ Open(r) \/ CheckBase(r) \/ ReadOld(r) \/ Rename(r)
  \/ ReadMax(r) \/ InsertVersion(r) \/ CommitVersion(r)
  \/ DeleteVersions(r) \/ DeleteSynoptic(r) \/ CommitDelete(r)

Next == \E r \in Requests : Reject(r) \/ Receive(r) \/ Handle(r) \/ Abort(r)

Spec == Init /\ [][Next]_vars

(* PostgreSQL grants a lock that is free: a handler ends once nothing      *)
(* blocks it.                                                              *)
Fairness == \A r \in Requests : WF_vars(Handle(r))

FairSpec == Spec /\ Fairness

-----------------------------------------------------------------------------
(* "la creation ecrit toujours la version 1", "les precedentes restent     *)
(* restaurables": a synoptic that exists has the versions 1..k without gap *)
(* or duplicate, and one that is gone leaves no version, whatever saves,   *)
(* restorations and deletions ran at once (_add_version, delete_synoptic). *)
HistoryWhole ==
  \A s \in Ids :
    LET mine == {v \in rows : v.syn = s}
    IN IF slug[s] = Gone THEN mine = {}
       ELSE mine # {} /\ Versions(s) = 1..Cardinality(mine)

(* An accepted request is kept, as long as the synoptic exists: the        *)
(* version it was answered holds the document it sent or, "restaurer       *)
(* recopie une ancienne version", the one of the version it restores.      *)
AcceptedIsStored ==
  \A r \in Requests :
    LET s == req[r].syn
    IN pc[r] = "ok" /\ req[r].kind \in {"create", "save", "restore"} /\ slug[s] # Gone
         => /\ num[r] \in Versions(s)
            /\ Document(s, num[r]) = IF req[r].kind = "restore" THEN Document(s, req[r].base) ELSE r

(* A save is refused when its base was already old when the request came   *)
(* in (base_version of save_synoptic): only saves in flight together may   *)
(* pass each other.                                                        *)
OldBaseRefused ==
  \A r \in Requests :
    pc[r] = "ok" /\ req[r].kind = "save" /\ req[r].base # 0 => req[r].base >= floor[r]

(* "refus (409) si quelqu'un a enregistre depuis": an accepted save        *)
(* follows the version the editor worked on.                               *)
SaveFollowsBase ==
  \A r \in Requests :
    pc[r] = "ok" /\ req[r].kind = "save" /\ req[r].base # 0 => num[r] = req[r].base + 1

(* Every request is answered: the row locks of saves, renames and          *)
(* deletions never wait for each other in a circle.                        *)
EveryRequestAnswered == <>[](\A r \in Requests : ~Running(r))
=============================================================================
